---- MODULE Spec2Model ----
(***************************************************************************)
(* The trend-momentum strategy.                                            *)
(*   Spec          ExitManager (src/strategy/exits.py), the per-position   *)
(*                 monitoring loop                                         *)
(*   SpecTrend     TrendAnalyzer (src/strategy/trend_analysis.py)          *)
(*   SpecDetails   its get_trend_details, called twice on one market       *)
(*   SpecDetailsLive  get_trend_details while new bars change the market   *)
(*   SpecSignal    SignalGenerator (src/strategy/signals.py)               *)
(*   SpecMain      the bar and order handlers and the decision cycles of   *)
(*                 TrendMomentumXStrategy (src/main.py)                    *)
(*   SpecShutdown  its shutdown beside the monitoring loops                *)
(*   SpecStopping  its shutdown beside the decision cycles, with three     *)
(*                 positions to close                                      *)
(*   SpecShutdownCalls  the invocations of shutdown by the signal handler, *)
(*                 by run and by main                                      *)
(*   SpecTasks     its decision cycles as call stacks, with the exception  *)
(*                 handlers of every frame                                 *)
(*   SpecBreakeven one breakeven attempt of ExitManager, await by await,   *)
(*                 beside the stop order at the broker                     *)
(*   SpecOrderbook OrderBookAnalyzer (src/strategy/orderbook.py)           *)
(*   SpecRisk      RiskManager (src/strategy/risk_manager.py); there       *)
(*                 prices are counted in hundredths of a point, money in   *)
(*                 thousandths of a dollar and rates in thousandths        *)
(*   SpecLoops     several manage_position calls of one ExitManager        *)
(*   SpecRiskLimited  the strategy beside a RiskManager whose limits are   *)
(*                 reached                                                 *)
(*   SpecEntry     enter_trade of TrendMomentumXStrategy with its prices,  *)
(*                 in hundredths of a point                                *)
(* Prices are integers counted in ticks of the instrument, the wall clock  *)
(* is counted in minutes, signal weights and scores in halves of a point.  *)
(***************************************************************************)
EXTENDS Integers, FiniteSets, Sequences, TLC

\* ------------------------------------------------------------------ bounds
MaxRisk == 4          \* largest entry-to-stop distance of an input position
ClockSlack == 1       \* minutes the clock may run past the time-exit limit
MaxCount == 2         \* cap of the counters of broker calls
MaxLevel == 2         \* largest level of the 15min averages and close
MaxVolume == 2        \* largest volume of a bar
MaxIcebergs == 2      \* most iceberg levels of one detection
MaxLoopClock == 1     \* minutes the clock runs beside concurrent loops

\* ------------------------------------------------- configuration constants
TIME_EXIT_MINUTES == 5
BREAKEVEN_TRIGGER_RATIO == 1
BREAKEVEN_OFFSET_TICKS == 5
RR_RATIO == 2
MinBars5m == 35       \* len(data_5m) < 35 -> no MACD
MinBars15s == 10      \* len(data_15s) < 10 -> no SAR
TickSize == 1         \* instrument.tickSize, prices being counted in ticks

trailing_enabled == TRUE

\* --------------------------------------------------------------- domains
EntryPrice == RR_RATIO * MaxRisk + 1
MaxPrice == 2 * EntryPrice
MaxNow == TIME_EXIT_MINUTES + ClockSlack
Prices == 0..MaxPrice
PositionIds == {"POS1"}

\* MACD histogram in hundredths: -1 is -0.01, 1 is 0.01
Hists == {-2, -1, 1, 2}

\* what suite.data.get_current_price() can do: return a price (0.0 included),
\* return None, or raise
PriceResults ==
    [kind : {"value"}, value : Prices]
        \cup {[kind |-> "none", value |-> 0], [kind |-> "raised", value |-> 0]}

\* what suite.data.get_data("5min", bars=50) followed by MACD can give
Data5mResults ==
    [kind : {"frame"}, len : {MinBars5m - 1, MinBars5m}, hist : Hists]
        \cup {[kind |-> "none", len |-> 0, hist |-> 1],
              [kind |-> "raised", len |-> 0, hist |-> 1]}

\* what suite.data.get_data("15sec", bars=20) followed by SAR can give
Data15sResults ==
    [kind : {"frame"}, len : {MinBars15s - 1, MinBars15s}, sar : Prices]
        \cup {[kind |-> "none", len |-> 0, sar |-> 0],
              [kind |-> "raised", len |-> 0, sar |-> 0]}

\* suite.instrument: an instrument with a tickSize, or None
Instruments == {[kind |-> "instrument", tickSize |-> TickSize],
                [kind |-> "none", tickSize |-> 0]}

NotFetched == [kind |-> "notfetched", value |-> 0]
NoData5m == [kind |-> "notfetched", len |-> 0, hist |-> 1]
NoData15s == [kind |-> "notfetched", len |-> 0, sar |-> 0]

\* `if not current_price`: None and 0.0 are both falsy
Truthy(price) == price.kind = "value" /\ price.value # 0

Abs(x) == IF x < 0 THEN -x ELSE x

\* main.py _calculate_target_price
CalculateTargetPrice(entry_price, stop_price, direction) ==
    LET stop_distance == Abs(entry_price - stop_price)
        target_distance == stop_distance * RR_RATIO
    IN  IF direction = "long" THEN entry_price + target_distance
        ELSE entry_price - target_distance

\* the position dicts the orchestrator hands over: stop on the loss side
PositionInputs ==
    { [id |-> i, direction |-> d, entry_price |-> EntryPrice,
       stop_price |-> (IF d = "long" THEN EntryPrice - r ELSE EntryPrice + r),
       target_price |-> CalculateTargetPrice(EntryPrice,
                           IF d = "long" THEN EntryPrice - r ELSE EntryPrice + r, d),
       size |-> 1] : i \in PositionIds, d \in {"long", "short"}, r \in 1..MaxRisk }

\* ------------------------------------------------- trend analysis inputs
EMA_SLOW == 200
MACD_SLOW == 26
MACD_SIGNAL == 9
MinBars1m == 100      \* len(data) < 100 -> neutral

\* get_data("15min") piped through EMA: None, an exception, or a frame that
\* is empty, one bar short, or long enough with its last row
Data15mResults ==
    {[kind |-> k, len |-> 0, ema_50 |-> 0, ema_200 |-> 0, close |-> 0] :
        k \in {"none", "raised"}}
    \cup {[kind |-> "frame", len |-> n, ema_50 |-> 0, ema_200 |-> 0, close |-> 0] :
        n \in {0, EMA_SLOW - 1}}
    \cup {[kind |-> "frame", len |-> EMA_SLOW, ema_50 |-> f, ema_200 |-> s, close |-> c] :
        f \in 0..MaxLevel, s \in 0..MaxLevel, c \in 0..MaxLevel}

\* get_data("5min") piped through MACD, with the last three histogram values
Data5mTrendResults ==
    {[kind |-> k, len |-> 0, hist |-> <<0, 0, 0>>] : k \in {"none", "raised"}}
    \cup {[kind |-> "frame", len |-> n, hist |-> <<0, 0, 0>>] :
        n \in {0, MACD_SLOW + MACD_SIGNAL - 1}}
    \cup {[kind |-> "frame", len |-> MACD_SLOW + MACD_SIGNAL, hist |-> <<a, b, c>>] :
        a \in -1..1, b \in -1..1, c \in -1..1}

\* get_data("1min") piped through WAE, with its last row
Data1mResults ==
    {[kind |-> k, len |-> 0, explosion |-> 0, trend |-> 0, deadzone |-> 0] :
        k \in {"none", "raised"}}
    \cup {[kind |-> "frame", len |-> n, explosion |-> 0, trend |-> 0, deadzone |-> 0] :
        n \in {0, MinBars1m - 1}}
    \cup {[kind |-> "frame", len |-> MinBars1m, explosion |-> e, trend |-> t, deadzone |-> z] :
        e \in 0..1, t \in -1..1, z \in 0..1}

NoTrendData ==
    [m15 |-> [kind |-> "notfetched", len |-> 0, ema_50 |-> 0, ema_200 |-> 0, close |-> 0],
     m5 |-> [kind |-> "notfetched", len |-> 0, hist |-> <<0, 0, 0>>],
     m1 |-> [kind |-> "notfetched", len |-> 0, explosion |-> 0, trend |-> 0, deadzone |-> 0]]
NoTrends == [m15 |-> "none", m5 |-> "none", m1 |-> "none"]

\* frames of full length whose trend is bullish (s = 1), neutral (s = 0)
\* or bearish (s = -1), for a market that changes while it is read
LiveData15m ==
    {[kind |-> "frame", len |-> EMA_SLOW, ema_50 |-> 1, ema_200 |-> 1 - s,
      close |-> 1 + s] : s \in -1..1}
LiveData5m ==
    {[kind |-> "frame", len |-> MACD_SLOW + MACD_SIGNAL, hist |-> <<-s, 0, s>>] :
        s \in -1..1}
LiveData1m ==
    {[kind |-> "frame", len |-> MinBars1m, explosion |-> 1, trend |-> s,
      deadzone |-> 0] : s \in -1..1}
LiveMarkets == [m15 : LiveData15m, m5 : LiveData5m, m1 : LiveData1m]

\* ------------------------------------------------ signal generator inputs
RSI_OVERSOLD == 30
RSI_OVERBOUGHT == 70
RSI_LONG_CROSS == 40
RSI_SHORT_CROSS == 60
MinBarsSignal == 100  \* len(data_15s) < 100 -> no entry check
MinBarsPattern == 120 \* len(data_5m) < 120 -> no pattern

\* Config.MIN_SIGNALS_REQUIRED, PATTERN_REQUIRED and WEIGHT_*, read by
\* __init__ from the environment; one point of weight is 2 halves
SignalConfigs ==
    [min_signals_required : 1..4, pattern_required : BOOLEAN,
     weight_rsi : {2}, weight_wae : {2}, weight_price : {2}, weight_pattern : {2, 4}]
NoSignalConfig ==
    [min_signals_required |-> 0, pattern_required |-> FALSE,
     weight_rsi |-> 0, weight_wae |-> 0, weight_price |-> 0, weight_pattern |-> 0]

\* get_data("15sec", bars=120) piped through RSI and WAE: None, an
\* exception, or a frame that is empty, one bar short, or long enough with
\* the RSI of the lookback window (earlier, previous, last bar), the WAE of
\* the last row, the last close and the previous bar's high and low
RsiLevels == {20, 50, 80}
Data15sSignalResults ==
    {[kind |-> k, len |-> 0, rsi |-> <<50, 50, 50>>, explosion |-> 0, trend |-> 0,
      deadzone |-> 0, close |-> 1, prev_high |-> 1, prev_low |-> 1] :
        k \in {"none", "raised"}}
    \cup {[kind |-> "frame", len |-> n, rsi |-> <<50, 50, 50>>, explosion |-> 0,
           trend |-> 0, deadzone |-> 0, close |-> 1, prev_high |-> 1, prev_low |-> 1] :
        n \in {0, MinBarsSignal - 1}}
    \cup {[kind |-> "frame", len |-> MinBarsSignal, rsi |-> <<r1, r2, r3>>,
           explosion |-> e, trend |-> t, deadzone |-> 0,
           close |-> c, prev_high |-> 1, prev_low |-> 1] :
        r1 \in RsiLevels, r2 \in RsiLevels, r3 \in RsiLevels,
        e \in 0..1, t \in -1..1, c \in 0..2}

\* what the pattern check fetches: get_data("5min", bars=120) piped through
\* FVG and ORDERBLOCK (None, an exception, a short or a long enough frame
\* with the order-block flag, its boundary and the gap flag of the last
\* row), then get_data("15sec") for the current price, here 1
PatternResults ==
    {[kind |-> k, len |-> 0, price |-> "none", ob |-> FALSE, ob_edge |-> 1, fvg |-> FALSE] :
        k \in {"none", "raised"}}
    \cup {[kind |-> "frame", len |-> MinBarsPattern - 1, price |-> "none",
           ob |-> FALSE, ob_edge |-> 1, fvg |-> FALSE]}
    \cup {[kind |-> "frame", len |-> MinBarsPattern, price |-> "none",
           ob |-> FALSE, ob_edge |-> 1, fvg |-> FALSE]}
    \cup {[kind |-> "frame", len |-> MinBarsPattern, price |-> "frame",
           ob |-> o, ob_edge |-> b, fvg |-> g] :
        o \in BOOLEAN, b \in 0..2, g \in BOOLEAN}
CurrentPrice == 1

NoSignalData == [kind |-> "notfetched", len |-> 0]
BlankSignals ==
    [rsi_cross |-> FALSE, wae_explosion |-> FALSE, price_break |-> FALSE,
     pattern_edge |-> FALSE, has_score |-> FALSE, score |-> 0, max_score |-> 0,
     signals_met |-> 0]

\* ------------------------------------------------------- strategy inputs
VolumeThresholdInverse == 5   \* 1 / Config.VOLUME_THRESHOLD_PERCENT (0.2)

\* one _process_signal_task per 15sec bar; the entry order of a cycle is
\* named after its task
Tasks == {"T1", "T2"}
TaskOrder == <<"T1", "T2">>

\* NEW_BAR events: the timeframe and the bar, which may be empty
BarTimeframes == {"15sec", "1min", "5min"}
Bars ==
    {[empty |-> TRUE, volume |-> 0]}
    \cup {[empty |-> FALSE, volume |-> v] : v \in 0..MaxVolume}

\* get_data("15sec", bars=1) inside check_volume_filter
VolumeData ==
    {[kind |-> k, len |-> 0, volume |-> 0] : k \in {"none", "raised"}}
    \cup {[kind |-> "frame", len |-> 0, volume |-> 0]}
    \cup {[kind |-> "frame", len |-> 1, volume |-> v] : v \in 0..MaxVolume}

CycleIdle ==
    [pc |-> "idle", volume_ok |-> "none", trade_mode |-> "none",
     signal_valid |-> "none", orderbook_confirmed |-> "none",
     direction |-> "none", steps |-> << >>]

\* the positions of the shutdown scenario, in the order in which they
\* entered active_positions
ShutdownIds == {"POS1", "POS2", "POS3"}
PositionOrder == <<"POS1", "POS2", "POS3">>

\* ------------------------------------------------ decision-cycle frames
\* the awaits of process_trading_signal, in the order of the code
TaskSteps == <<"volume", "imbalance", "mode", "signal", "orderbook", "entry">>
TaskStepNames == {TaskSteps[i] : i \in 1..Len(TaskSteps)}

\* NEW_BAR events as on_new_bar meets them: a bar as in Bars, or a
\* non-empty bar whose close is not a number, on which the debug line
\* (lines 154-157) raises
BarEvents ==
    [timeframe : BarTimeframes, bar : Bars, malformed : {FALSE}]
    \cup [timeframe : BarTimeframes,
          bar : {[empty |-> FALSE, volume |-> 0]}, malformed : {TRUE}]

TaskUnborn ==
    [pc |-> "unborn", volume_ok |-> FALSE, raised_in |-> "none",
     caught_by |-> "none", end |-> "none", after |-> {}]

\* ------------------------------------------------ breakeven attempt inputs
\* suite.instrument as _move_stop_to_breakeven tests it: None, an object
\* without tickSize, or an instrument
BreakevenInstruments ==
    Instruments \cup {[kind |-> "no_tick_size", tickSize |-> 0]}

\* get_current_price() in _check_trailing_activation: None, or a price
\* around the trigger of the position with the largest risk
BreakevenPrices ==
    {[kind |-> "none", value |-> 0]}
    \cup [kind : {"value"}, value : 0..(EntryPrice + MaxRisk + 1)]

NoStopOrder == [kind |-> "none", price |-> 0]
NoPosition ==
    [entry_time |-> 0, entry_price |-> 0, stop_price |-> 0, target_price |-> 0,
     direction |-> "none", size |-> 0, trailing_stop_activated |-> FALSE,
     breakeven_activated |-> FALSE]

\* --------------------------------------------------- shutdown invocations
\* who calls shutdown(): the task of the SIGINT handler (line 571), the
\* finally block of run (541) and the finally block of main (584)
ShutdownCallers == {"signal_handler", "run_finally", "main_finally"}

NotInvoked ==
    [pc |-> "idle", number |-> 0, idx |-> 0, used |-> 0, sent |-> {},
     disconnected |-> FALSE]

\* ------------------------------------------------ OrderBookAnalyzer inputs
\* the depth imbalance is a ratio, counted here in ten-thousandths
IMBALANCE_LONG_THRESHOLD == 15000
IMBALANCE_SHORT_THRESHOLD == 6667
ImbalanceLevels == {0, 6666, 6667, 6668, 10000, 14999, 15000, 15001}
\* suite.orderbook.get_market_imbalance(levels): no order book on the suite,
\* an exception (of the call or of float()), a falsy result, a result
\* without 'depth_imbalance', or a depth imbalance
ImbalanceResults ==
    {[kind |-> k, depth_imbalance |-> 0] :
        k \in {"no_orderbook", "raised", "none", "no_key"}}
    \cup {[kind |-> "value", depth_imbalance |-> v] : v \in ImbalanceLevels}
\* the 'side' of a detected iceberg level; "none" is a level without a side
IcebergSides == {"bid", "ask", "none"}
IcebergLists == UNION {[1..n -> IcebergSides] : n \in 0..MaxIcebergs}
\* suite.orderbook.detect_iceberg_orders()
IcebergResults ==
    {[kind |-> k, iceberg_levels |-> << >>] :
        k \in {"no_orderbook", "raised", "none", "no_key"}}
    \cup {[kind |-> "levels", iceberg_levels |-> l] : l \in IcebergLists}
NoImbalance == [kind |-> "none", value |-> 0]
BlankConfirmation ==
    [imbalance |-> NoImbalance, icebergs |-> << >>, confirmed |-> FALSE,
     reason |-> ""]

\* ------------------------------------------------------ RiskManager inputs
RISK_PER_TRADE == 5
MAX_DAILY_LOSS == 30
MAX_WEEKLY_LOSS == 50
MAX_CONCURRENT_TRADES == 3
MAX_POSITION_SIZE == 10       \* _get_max_position_size()
\* prices of the sizing calls, in hundredths of a point
SizingEntry == 500000
StopDistances == {0, 25, 500, 2500}
SizingStops ==
    {SizingEntry - d : d \in StopDistances} \cup {SizingEntry + d : d \in StopDistances}
\* account_info.balance, in dollars
Balances == {-100000, 0, 20000, 100000, 1000000}
\* suite.client.get_account_info(): nothing, an object without balance, or
\* an account
AccountInfos ==
    {[kind |-> k, balance |-> 0] : k \in {"none", "no_balance"}}
    \cup {[kind |-> "account", balance |-> b] : b \in Balances}
\* instrument.tickValue in thousandths of a dollar and instrument.tickSize in
\* hundredths of a point, 0 standing for None and for zero
TickValues == {0, 5000, 12500}
TickSizes == {0, 25}
\* suite.instrument: nothing, an object without tickValue, or an instrument
SizingInstruments ==
    {[kind |-> k, tickValue |-> 0, tickSize |-> 0] : k \in {"none", "no_tick_value"}}
    \cup {[kind |-> "instrument", tickValue |-> v, tickSize |-> z] :
             v \in TickValues, z \in TickSizes}
NoSizing ==
    [account_info |-> [kind |-> "none", balance |-> 0],
     instrument |-> [kind |-> "none", tickValue |-> 0, tickSize |-> 0],
     entry_price |-> 0, stop_price |-> 0]
NoSize == [kind |-> "none", value |-> 0]

\* ------------------------------------------------------ enter_trade inputs
ATR_PERIOD == 14              \* self.atr_period, the period of column atr_14
STOP_TICKS == 10              \* self.stop_ticks
PercentStop == 100            \* entry_price * 0.01 is entry_price / 100
EntryTickSize == 25           \* tickSize of the traded instrument
AtrLevels == {0, 250}
\* suite.data.get_current_price(): an exception, a falsy price, or a price
CurrentPriceResults ==
    {[kind |-> k, value |-> 0] : k \in {"raised", "none"}}
    \cup {[kind |-> "value", value |-> SizingEntry]}
\* suite.data.get_data("1min"): an exception, None, or a frame with its
\* length and the last value of its ATR column
Data1mStopResults ==
    {[kind |-> k, len |-> 0, atr |-> 0] : k \in {"raised", "none"}}
    \cup {[kind |-> "frame", len |-> n, atr |-> 0] : n \in {0, ATR_PERIOD - 1}}
    \cup {[kind |-> "frame", len |-> ATR_PERIOD, atr |-> a] : a \in AtrLevels}
\* suite.instrument: nothing, an object without tickSize, or an instrument
EntryInstruments ==
    {[kind |-> k, tickSize |-> 0] : k \in {"none", "no_tick_size"}}
    \cup {[kind |-> "instrument", tickSize |-> EntryTickSize]}
NoEntry ==
    [pc |-> "idle", direction |-> "none", current_price |-> 0,
     data_1m |-> [kind |-> "none", len |-> 0, atr |-> 0],
     instrument |-> [kind |-> "none", tickSize |-> 0],
     stop_price |-> 0, target_price |-> 0]
NoOrder == [direction |-> "none", entry_price |-> 0, stop_loss |-> 0, take_profit |-> 0]

\* ------------------------------------------- concurrent manage_position calls
Loops == {"L1", "L2"}
LoopPositionIds == {"POS1", "POS2"}
\* the position dicts handed to the calls: a risk of one tick
LoopPositionInputs ==
    { [id |-> i, direction |-> d, entry_price |-> EntryPrice,
       stop_price |-> (IF d = "long" THEN EntryPrice - 1 ELSE EntryPrice + 1),
       target_price |-> CalculateTargetPrice(EntryPrice,
                           IF d = "long" THEN EntryPrice - 1 ELSE EntryPrice + 1, d),
       size |-> 1] : i \in LoopPositionIds, d \in {"long", "short"} }
\* the prices and SAR values the loops see: around the entry
LoopPrices == (EntryPrice - 2)..(EntryPrice + 2)
LoopPriceResults ==
    {[kind |-> "value", value |-> v] : v \in LoopPrices}
    \cup {[kind |-> "none", value |-> 0], [kind |-> "raised", value |-> 0]}
LoopData15sResults ==
    {[kind |-> "frame", len |-> MinBars15s, sar |-> v] : v \in LoopPrices}
    \cup {[kind |-> "frame", len |-> MinBars15s - 1, sar |-> 0],
          [kind |-> "none", len |-> 0, sar |-> 0],
          [kind |-> "raised", len |-> 0, sar |-> 0]}
LoopIdle == [pc |-> "idle", id |-> "none"]

\* ------------------------------------------------ get_trend_details inputs
DetailCalls == {1, 2}
\* the attributes __init__ gives the analyzer
NewAnalyzer ==
    [ema_slow |-> EMA_SLOW, macd_slow |-> MACD_SLOW, macd_signal |-> MACD_SIGNAL]
NoDetails == [m15 |-> "none", m5 |-> "none", m1 |-> "none", trade_mode |-> "none"]
\* the awaits of get_trend_details in their order: its own three trend
\* calls, then the three of get_trade_mode
DetailSteps == <<"m15", "m5", "m1", "mode_m15", "mode_m5", "mode_m1">>

\* ----------------------------------------------------------------- state
VARIABLES
    pending,            \* ids of filled positions not yet handed to manage_position
    active_positions,   \* ExitManager.active_positions: id -> record
    pc,                 \* where each position's manage_position coroutine stands
    exit_signal,        \* manage_position's local exit_signal
    now,                \* datetime.now(), in minutes
    obs,                \* what the collaborators returned in the current tick
    close_attempts,     \* number of suite.orders.close_position calls per id
    breakeven_attempts, \* number of _move_stop_to_breakeven calls per id
    trend_pc,           \* where the get_trade_mode coroutine stands
    trend_data,         \* what get_data returned for each timeframe
    trends,             \* the three timeframe trends of the running call
    trade_mode,         \* what get_trade_mode returned
    sig_cfg,            \* SignalGenerator's requirements and weights
    sig_pc,             \* where the check_long_entry/check_short_entry call stands
    sig_dir,            \* direction of the running entry check
    sig_data,           \* what get_data("15sec", bars=120) returned: kind and length
    signals,            \* the signals dict of the running entry check
    all_signals,        \* the decision returned with the signals dict
    pattern_checked,    \* whether the pattern check was evaluated
    running,            \* TrendMomentumXStrategy.running
    volume_avg_1min,    \* the 1min volume average
    latest_bars,        \* timeframes whose latest bar is cached
    cycle,              \* the decision cycle of each _process_signal_task
    pending_orders,     \* entry order id -> tracked order
    broker,             \* the entry order of each cycle at the broker
    sd_pc,              \* where the shutdown coroutine stands
    sd_idx,             \* positions the shutdown loop has gone through
    sd_used,            \* size of active_positions when the loop began
    sd_sent,            \* ids shutdown has sent close_position for
    disconnected,       \* suite.disconnect() was called
    iceberg_check_enabled, \* OrderBookAnalyzer.iceberg_check_enabled
    ob_pc,              \* where the confirm_long_entry/confirm_short_entry call stands
    ob_dir,             \* direction of the running confirmation
    ob_seen,            \* what the order book returned to the running confirmation
    confirmation,       \* the confirmation dict of the running call
    ob_returned,        \* the boolean the call returned
    icebergs_detected,  \* detect_icebergs ran in the call
    sizing,             \* what the last calculate_position_size call was given
    position_size,      \* what it returned
    daily_pnl,          \* RiskManager.daily_pnl
    weekly_pnl,         \* RiskManager.weekly_pnl
    open_positions,     \* len(RiskManager.open_positions)
    entry,              \* the running enter_trade call: position and locals
    entry_order,        \* the last order handed to enter_long / enter_short
    loops,              \* each manage_position call: where it stands, its position_id
    owner,              \* the call that put each id into active_positions
    market,             \* what get_data returns for each timeframe
    analyzer,           \* the attributes of the TrendAnalyzer
    details_pc,         \* the running get_trend_details call and its next await
    details,            \* what each get_trend_details call returned
    tasks,              \* each _process_signal_task: its await, what it raised, its end
    handler_raised,     \* an on_new_bar call raised into the event bus
    be_pc,              \* where the _check_trailing_activation call stands
    be_position,        \* active_positions[position_id] of that call
    be_seen,            \* the price and the instrument the call was given
    be_calls,           \* the broker calls of the attempt and how each ended
    stop_order,         \* the position's protective stop order at the broker
    sd_call,            \* each invocation of shutdown: where it stands, what it issued
    sd_calls_made       \* how many times shutdown was invoked

exit_vars == <<pending, active_positions, pc, exit_signal, now, obs,
               close_attempts, breakeven_attempts>>
trend_vars == <<trend_pc, trend_data, trends, trade_mode>>
signal_vars == <<sig_cfg, sig_pc, sig_dir, sig_data, signals, all_signals,
                 pattern_checked>>
bar_vars == <<volume_avg_1min, latest_bars>>
order_vars == <<pending_orders, broker>>
shutdown_vars == <<sd_pc, sd_idx, sd_used, sd_sent, disconnected>>
main_vars == <<running, bar_vars, cycle, order_vars, shutdown_vars>>
orderbook_vars == <<iceberg_check_enabled, ob_pc, ob_dir, ob_seen,
                    confirmation, ob_returned, icebergs_detected>>
risk_vars == <<sizing, position_size, daily_pnl, weekly_pnl, open_positions>>
entry_vars == <<entry, entry_order>>
loop_vars == <<loops, owner>>
details_vars == <<market, analyzer, details_pc, details>>
task_vars == <<tasks, handler_raised>>
breakeven_vars == <<be_pc, be_position, be_seen, be_calls, stop_order>>
call_vars == <<sd_call, sd_calls_made>>
aux_vars == <<orderbook_vars, risk_vars, entry_vars, loop_vars, details_vars,
              task_vars, breakeven_vars, call_vars>>
outside_exits == <<trend_vars, signal_vars, main_vars, aux_vars>>

vars == <<exit_vars, trend_vars, signal_vars, main_vars, aux_vars>>

NoExit == [should_exit |-> FALSE, reason |-> ""]
Exit(reason) == [should_exit |-> TRUE, reason |-> reason]

BlankObs == [check_price |-> NotFetched, check_data |-> NoData5m,
             act_price |-> NotFetched,
             be_modify |-> "none", be_cancel |-> "none", be_place |-> "none",
             trail_data |-> NoData15s, trail_price |-> NotFetched,
             trail_modify |-> "none", log |-> "none"]

Inc(n) == IF n < MaxCount THEN n + 1 ELSE n

\* ------------------------------------------------------- pure decisions
\* TargetOrStop with the stop tested before the target and strictly
TargetOrStop_StopFirst(position, current_price) ==
    IF position.direction = "long"
    THEN IF current_price < position.stop_price THEN "Stop loss hit"
         ELSE IF current_price >= position.target_price THEN "Target reached"
         ELSE ""
    ELSE IF current_price > position.stop_price THEN "Stop loss hit"
         ELSE IF current_price <= position.target_price THEN "Target reached"
         ELSE ""

\* _check_exit_conditions, lines 71-87: target first, then stop
TargetOrStop(position, current_price) ==
    IF position.direction = "long"
    THEN IF current_price >= position.target_price THEN "Target reached"
         ELSE IF current_price <= position.stop_price THEN "Stop loss hit"
         ELSE ""
    ELSE IF current_price <= position.target_price THEN "Target reached"
         ELSE IF current_price >= position.stop_price THEN "Stop loss hit"
         ELSE ""

\* TimeExit firing as soon as the limit is reached, not once it is exceeded
TimeExit_AtLimit(position, current_price, clock) ==
    LET time_elapsed == clock - position.entry_time
    IN  /\ time_elapsed >= TIME_EXIT_MINUTES
        /\ IF position.direction = "long"
           THEN current_price <= position.entry_price
           ELSE current_price >= position.entry_price

\* _check_exit_conditions, lines 89-100
TimeExit(position, current_price, clock) ==
    LET time_elapsed == clock - position.entry_time
    IN  /\ time_elapsed > TIME_EXIT_MINUTES
        /\ IF position.direction = "long"
           THEN current_price <= position.entry_price
           ELSE current_price >= position.entry_price

\* CheckTrendReversal with the histogram thresholds included
CheckTrendReversal_Inclusive(position_direction, data_5m) ==
    IF data_5m.kind # "frame" \/ data_5m.len < MinBars5m THEN FALSE
    ELSE \/ position_direction = "long" /\ data_5m.hist <= -1
         \/ position_direction = "short" /\ data_5m.hist >= 1

\* _check_trend_reversal, on the data already fetched
CheckTrendReversal(position_direction, data_5m) ==
    IF data_5m.kind # "frame" \/ data_5m.len < MinBars5m THEN FALSE
    ELSE \/ position_direction = "long" /\ data_5m.hist < -1
         \/ position_direction = "short" /\ data_5m.hist > 1

\* _check_exit_conditions for a truthy price; data_5m is only looked at when
\* neither target, stop nor time exit applies
CheckExitConditions(position, current_price, clock, data_5m) ==
    IF TargetOrStop(position, current_price) # ""
    THEN Exit(TargetOrStop(position, current_price))
    ELSE IF TimeExit(position, current_price, clock)
    THEN Exit("Time exit - no progress")
    ELSE IF CheckTrendReversal(position.direction, data_5m)
    THEN Exit("Trend reversal detected")
    ELSE NoExit

NeedsData5m(position, current_price, clock) ==
    /\ TargetOrStop(position, current_price) = ""
    /\ ~TimeExit(position, current_price, clock)

\* _check_trailing_activation, lines 142-149 and 157-158
BreakevenTriggered(position, current_price) ==
    LET risk_amount == Abs(position.entry_price - position.stop_price)
        breakeven_trigger == risk_amount * BREAKEVEN_TRIGGER_RATIO
    IN  IF position.direction = "long"
        THEN current_price >= position.entry_price + breakeven_trigger
        ELSE current_price <= position.entry_price - breakeven_trigger

\* NewBreakevenStop with the offset applied towards the loss side
NewBreakevenStop_WrongSide(position, instrument) ==
    LET offset == BREAKEVEN_OFFSET_TICKS * instrument.tickSize
    IN  IF position.direction = "long" THEN position.entry_price - offset
        ELSE position.entry_price + offset

\* _move_stop_to_breakeven, lines 175-180
NewBreakevenStop(position, instrument) ==
    LET offset == BREAKEVEN_OFFSET_TICKS * instrument.tickSize
    IN  IF position.direction = "long" THEN position.entry_price + offset
        ELSE position.entry_price - offset

\* _move_stop_to_breakeven: the outcome of the attempt, given what the broker
\* calls do (TRUE: returns, FALSE: raises)
BreakevenOutcome(instrument, modify_ok, cancel_ok, place_ok) ==
    IF instrument.kind # "instrument" THEN "no_instrument"
    ELSE IF modify_ok THEN "modified"
    ELSE IF cancel_ok /\ place_ok THEN "replaced"
    ELSE "failed"

\* MoveStopToBreakeven writing the record before the broker has confirmed
MoveStopToBreakeven_Optimistic(position, instrument, modify_ok, cancel_ok, place_ok) ==
    IF instrument.kind = "instrument"
    THEN [position EXCEPT !.stop_price = NewBreakevenStop(position, instrument),
                          !.breakeven_activated = TRUE]
    ELSE position

\* _move_stop_to_breakeven: the position record after the attempt
MoveStopToBreakeven(position, instrument, modify_ok, cancel_ok, place_ok) ==
    IF BreakevenOutcome(instrument, modify_ok, cancel_ok, place_ok)
           \in {"modified", "replaced"}
    THEN [position EXCEPT !.stop_price = NewBreakevenStop(position, instrument),
                          !.breakeven_activated = TRUE]
    ELSE position

\* TrailingAdopts without the comparison against the current stop
TrailingAdopts_AnySar(position, current_sar, current_price) ==
    IF position.direction = "long"
    THEN current_sar < current_price
    ELSE current_sar > current_price

\* _update_trailing_stop, lines 221-222 and 230-231
TrailingAdopts(position, current_sar, current_price) ==
    IF position.direction = "long"
    THEN current_sar > position.stop_price /\ current_sar < current_price
    ELSE current_sar < position.stop_price /\ current_sar > current_price

\* ---------------------------------------------------------------- actions
ExitsIdle ==
    /\ pending = PositionIds
    /\ active_positions = << >>
    /\ pc = [p \in PositionIds |-> "idle"]
    /\ exit_signal = [p \in PositionIds |-> NoExit]
    /\ now = 0
    /\ obs = [p \in PositionIds |-> BlankObs]
    /\ close_attempts = [p \in PositionIds |-> 0]
    /\ breakeven_attempts = [p \in PositionIds |-> 0]

TrendIdle ==
    /\ trend_pc = "idle"
    /\ trend_data = NoTrendData
    /\ trends = NoTrends
    /\ trade_mode = "none"

SignalIdle ==
    /\ sig_cfg = NoSignalConfig
    /\ sig_pc = "unbuilt"
    /\ sig_dir = "none"
    /\ sig_data = NoSignalData
    /\ signals = BlankSignals
    /\ all_signals = FALSE
    /\ pattern_checked = FALSE

\* TrendMomentumXStrategy.__init__
MainIdle ==
    /\ running = FALSE
    /\ volume_avg_1min = 0
    /\ latest_bars = {}
    /\ cycle = [t \in Tasks |-> CycleIdle]
    /\ pending_orders = << >>
    /\ broker = [t \in Tasks |-> "none"]
    /\ sd_pc = "idle"
    /\ sd_idx = 0
    /\ sd_used = 0
    /\ sd_sent = {}
    /\ disconnected = FALSE

\* before OrderBookAnalyzer.__init__
OrderbookIdle ==
    /\ iceberg_check_enabled = FALSE
    /\ ob_pc = "unbuilt"
    /\ ob_dir = "none"
    /\ ob_seen = [kind |-> "none", depth_imbalance |-> 0]
    /\ confirmation = BlankConfirmation
    /\ ob_returned = "none"
    /\ icebergs_detected = FALSE

\* RiskManager.__init__
RiskIdle ==
    /\ sizing = NoSizing
    /\ position_size = [kind |-> "unset", value |-> 0]
    /\ daily_pnl = 0
    /\ weekly_pnl = 0
    /\ open_positions = 0

\* no enter_trade call is running
EntryIdle ==
    /\ entry = NoEntry
    /\ entry_order = NoOrder

\* no manage_position call has been made
LoopsIdle ==
    /\ loops = [l \in Loops |-> LoopIdle]
    /\ owner = [i \in LoopPositionIds |-> "none"]

\* TrendAnalyzer.__init__, no market data yet
DetailsIdle ==
    /\ market = NoTrendData
    /\ analyzer = NewAnalyzer
    /\ details_pc = [call |-> 0, step |-> 0]
    /\ details = [k \in DetailCalls |-> NoDetails]

\* no 15sec bar has created a task yet
TasksIdle ==
    /\ tasks = [t \in Tasks |-> TaskUnborn]
    /\ handler_raised = FALSE

\* no position is monitored
BreakevenIdle ==
    /\ be_pc = "idle"
    /\ be_position = NoPosition
    /\ be_seen = [price |-> NotFetched, instrument |-> "none"]
    /\ be_calls = << >>
    /\ stop_order = NoStopOrder

\* shutdown has not been invoked
CallsIdle ==
    /\ sd_call = [c \in ShutdownCallers |-> NotInvoked]
    /\ sd_calls_made = 0

AuxIdle ==
    /\ OrderbookIdle /\ RiskIdle /\ EntryIdle /\ LoopsIdle /\ DetailsIdle
    /\ TasksIdle /\ BreakevenIdle /\ CallsIdle

Init == ExitsIdle /\ TrendIdle /\ SignalIdle /\ MainIdle /\ AuxIdle

\* manage_position, lines 24-41: the record is created and the loop entered
ManagePosition(position) ==
    LET p == position.id IN
    /\ UNCHANGED outside_exits
    /\ p \in pending
    /\ pc[p] = "idle"
    /\ pending' = pending \ {p}
    /\ active_positions' =
          (p :> [entry_time |-> now,
                 entry_price |-> position.entry_price,
                 stop_price |-> position.stop_price,
                 target_price |-> position.target_price,
                 direction |-> position.direction,
                 size |-> position.size,
                 trailing_stop_activated |-> FALSE,
                 breakeven_activated |-> FALSE]) @@ active_positions
    /\ pc' = [pc EXCEPT ![p] = "check"]
    /\ UNCHANGED <<exit_signal, now, obs, close_attempts, breakeven_attempts>>

\* manage_position line 43-44: the loop test and _check_exit_conditions
CheckExit(p) ==
    /\ UNCHANGED outside_exits
    /\ pc[p] = "check"
    /\ UNCHANGED <<pending, active_positions, now, close_attempts, breakeven_attempts>>
    /\ IF p \notin DOMAIN active_positions
       THEN /\ pc' = [pc EXCEPT ![p] = "done"]
            /\ UNCHANGED <<exit_signal, obs>>
       ELSE \E price \in PriceResults, data_5m \in Data5mResults :
            LET position == active_positions[p]
                fetch == Truthy(price) /\ NeedsData5m(position, price.value, now)
                seen == IF fetch THEN data_5m ELSE NoData5m
                o == [BlankObs EXCEPT !.check_price = price, !.check_data = seen]
            IN  /\ ~fetch => data_5m.kind = "none"
                /\ obs' = [obs EXCEPT ![p] = o]
                /\ IF price.kind = "raised" \/ (fetch /\ data_5m.kind = "raised")
                   THEN /\ pc' = [pc EXCEPT ![p] = "crashed"]
                        /\ UNCHANGED exit_signal
                   ELSE IF ~Truthy(price)
                   THEN /\ exit_signal' = [exit_signal EXCEPT ![p] = NoExit]
                        /\ pc' = [pc EXCEPT ![p] = "activate"]
                   ELSE LET sig == CheckExitConditions(position, price.value, now, data_5m)
                        IN  /\ exit_signal' = [exit_signal EXCEPT ![p] = sig]
                            /\ pc' = [pc EXCEPT ![p] =
                                  IF sig.should_exit THEN "exit" ELSE "activate"]

\* ExitPosition without the break: a failed close is tried again
ExitPosition_Retry(p) ==
    /\ UNCHANGED outside_exits
    /\ pc[p] = "exit"
    /\ \E close_ok \in BOOLEAN :
          /\ active_positions' =
                IF close_ok
                THEN [q \in DOMAIN active_positions \ {p} |-> active_positions[q]]
                ELSE active_positions
          /\ obs' = [obs EXCEPT ![p] =
                [BlankObs EXCEPT !.log = IF close_ok THEN "closed" ELSE "close_failed"]]
          /\ pc' = [pc EXCEPT ![p] = IF close_ok THEN "done" ELSE "exit"]
    /\ close_attempts' = [close_attempts EXCEPT ![p] = Inc(@)]
    /\ UNCHANGED <<pending, exit_signal, now, breakeven_attempts>>

\* manage_position lines 46-49 with _exit_position: one close attempt, the
\* record deleted only when close_position returned, then break
ExitPosition(p) ==
    /\ UNCHANGED outside_exits
    /\ pc[p] = "exit"
    /\ \E close_ok \in BOOLEAN :
          /\ active_positions' =
                IF close_ok
                THEN [q \in DOMAIN active_positions \ {p} |-> active_positions[q]]
                ELSE active_positions
          /\ obs' = [obs EXCEPT ![p] =
                [BlankObs EXCEPT !.log = IF close_ok THEN "closed" ELSE "close_failed"]]
    /\ close_attempts' = [close_attempts EXCEPT ![p] = Inc(@)]
    /\ pc' = [pc EXCEPT ![p] = "done"]
    /\ UNCHANGED <<pending, exit_signal, now, breakeven_attempts>>

\* manage_position lines 51-55 with _check_trailing_activation and, inside
\* it, _move_stop_to_breakeven
CheckTrailingActivation(p) ==
    /\ UNCHANGED outside_exits
    /\ pc[p] = "activate"
    /\ UNCHANGED <<pending, exit_signal, now, close_attempts>>
    /\ IF ~(trailing_enabled /\ ~active_positions[p].trailing_stop_activated)
       THEN /\ pc' = [pc EXCEPT ![p] = "trail"]
            /\ obs' = [obs EXCEPT ![p] = BlankObs]
            /\ UNCHANGED <<active_positions, breakeven_attempts>>
       ELSE \E price \in PriceResults, instrument \in Instruments,
               modify_ok \in BOOLEAN, cancel_ok \in BOOLEAN, place_ok \in BOOLEAN :
            LET position == active_positions[p]
                triggered == Truthy(price) /\ BreakevenTriggered(position, price.value)
                attempt == triggered /\ ~position.breakeven_activated
                outcome == IF attempt
                           THEN BreakevenOutcome(instrument, modify_ok, cancel_ok, place_ok)
                           ELSE "none"
                called == attempt /\ instrument.kind = "instrument"
                modify == IF ~called THEN "none"
                          ELSE IF modify_ok THEN "ok" ELSE "raised"
                cancel == IF ~called \/ modify_ok THEN "none"
                          ELSE IF cancel_ok THEN "ok" ELSE "raised"
                place == IF ~called \/ modify_ok \/ ~cancel_ok THEN "none"
                         ELSE IF place_ok THEN "ok" ELSE "raised"
                moved == IF attempt
                         THEN MoveStopToBreakeven(position, instrument,
                                                  modify_ok, cancel_ok, place_ok)
                         ELSE position
                after == IF triggered
                         THEN [moved EXCEPT !.trailing_stop_activated = TRUE]
                         ELSE moved
            IN  \* one representative of the broker results that are not looked at
                /\ ~attempt => (instrument.kind = "instrument" /\ modify_ok
                                    /\ cancel_ok /\ place_ok)
                /\ (attempt /\ instrument.kind # "instrument") =>
                       (modify_ok /\ cancel_ok /\ place_ok)
                /\ (attempt /\ modify_ok) => (cancel_ok /\ place_ok)
                /\ (attempt /\ ~cancel_ok) => place_ok
                /\ obs' = [obs EXCEPT ![p] =
                      [BlankObs EXCEPT !.act_price = price, !.be_modify = modify,
                                       !.be_cancel = cancel, !.be_place = place,
                                       !.log = IF outcome = "failed"
                                               THEN "breakeven_failed" ELSE "none"]]
                /\ IF price.kind = "raised"
                   THEN /\ pc' = [pc EXCEPT ![p] = "crashed"]
                        /\ UNCHANGED <<active_positions, breakeven_attempts>>
                   ELSE /\ pc' = [pc EXCEPT ![p] = "trail"]
                        /\ active_positions' = [active_positions EXCEPT ![p] = after]
                        /\ breakeven_attempts' =
                              [breakeven_attempts EXCEPT ![p] = IF attempt THEN Inc(@) ELSE @]

\* manage_position lines 57-58 with _update_trailing_stop
UpdateTrailingStop(p) ==
    /\ UNCHANGED outside_exits
    /\ pc[p] = "trail"
    /\ UNCHANGED <<pending, exit_signal, now, close_attempts, breakeven_attempts>>
    /\ IF ~active_positions[p].trailing_stop_activated
       THEN /\ pc' = [pc EXCEPT ![p] = "sleep"]
            /\ obs' = [obs EXCEPT ![p] = BlankObs]
            /\ UNCHANGED active_positions
       ELSE \E data_15s \in Data15sResults, price \in PriceResults, modify_ok \in BOOLEAN :
            LET position == active_positions[p]
                usable == data_15s.kind = "frame" /\ data_15s.len >= MinBars15s
                seen_price == IF usable THEN price ELSE NotFetched
                adopt == /\ usable
                         /\ Truthy(price)
                         /\ TrailingAdopts(position, data_15s.sar, price.value)
                outcome == IF ~adopt THEN "none"
                           ELSE IF modify_ok THEN "modified" ELSE "failed"
            IN  /\ ~usable => price.kind = "none"
                /\ ~adopt => modify_ok
                /\ ~usable => data_15s.sar = 0
                /\ obs' = [obs EXCEPT ![p] =
                      [BlankObs EXCEPT !.trail_data = data_15s, !.trail_price = seen_price,
                                       !.trail_modify = outcome,
                                       !.log = IF outcome = "failed"
                                               THEN "trailing_failed" ELSE "none"]]
                /\ IF data_15s.kind = "raised" \/ (usable /\ price.kind = "raised")
                   THEN /\ pc' = [pc EXCEPT ![p] = "crashed"]
                        /\ UNCHANGED active_positions
                   ELSE /\ pc' = [pc EXCEPT ![p] = "sleep"]
                        /\ active_positions' =
                              IF adopt /\ modify_ok
                              THEN [active_positions EXCEPT ![p].stop_price = data_15s.sar]
                              ELSE active_positions

\* manage_position line 60: asyncio.sleep(1); the clock may move on meanwhile
Sleep(p) ==
    /\ UNCHANGED outside_exits
    /\ pc[p] = "sleep"
    /\ pc' = [pc EXCEPT ![p] = "check"]
    /\ obs' = [obs EXCEPT ![p] = BlankObs]
    /\ \E d \in {0, 1} : now' = IF now + d <= MaxNow THEN now + d ELSE now
    /\ UNCHANGED <<pending, active_positions, exit_signal, close_attempts,
                   breakeven_attempts>>

Next ==
    \/ \E position \in PositionInputs : ManagePosition(position)
    \/ \E p \in PositionIds : CheckExit(p)
    \/ \E p \in PositionIds : ExitPosition(p)
    \/ \E p \in PositionIds : CheckTrailingActivation(p)
    \/ \E p \in PositionIds : UpdateTrailingStop(p)
    \/ \E p \in PositionIds : Sleep(p)

Spec == Init /\ [][Next]_vars

\* ---------------------------------------------------------- TrendAnalyzer
outside_trend == <<exit_vars, signal_vars, main_vars, aux_vars>>

\* get_15min_trend after the fetch, lines 26-49
Get15minTrend(data) ==
    IF data.len = 0 \/ data.len < EMA_SLOW THEN "neutral"
    ELSE IF data.ema_50 > data.ema_200 /\ data.close > data.ema_50 THEN "bullish"
    ELSE IF data.ema_50 < data.ema_200 /\ data.close < data.ema_50 THEN "bearish"
    ELSE "neutral"

\* get_5min_trend after the fetch, lines 53-78
Get5minTrend(data) ==
    LET hist_last3 == data.hist
        hist_increasing == \A i \in 1..2 : hist_last3[i] < hist_last3[i + 1]
        hist_decreasing == \A i \in 1..2 : hist_last3[i] > hist_last3[i + 1]
    IN  IF data.len = 0 \/ data.len < MACD_SLOW + MACD_SIGNAL THEN "neutral"
        ELSE IF hist_last3[3] > 0 /\ hist_increasing THEN "bullish"
        ELSE IF hist_last3[3] < 0 /\ hist_decreasing THEN "bearish"
        ELSE "neutral"

\* get_1min_trend after the fetch, lines 82-105
Get1minTrend(data) ==
    IF data.len = 0 \/ data.len < MinBars1m THEN "neutral"
    ELSE IF data.explosion > data.deadzone /\ data.trend > 0 THEN "bullish"
    ELSE IF data.explosion > data.deadzone /\ data.trend < 0 THEN "bearish"
    ELSE "neutral"

\* get_trade_mode asking for all three timeframes to agree
GetTradeMode_Unanimous(trend_15m, trend_5m, trend_1m) ==
    LET ts == <<trend_15m, trend_5m, trend_1m>>
        bullish_count == Cardinality({i \in 1..3 : ts[i] = "bullish"})
        bearish_count == Cardinality({i \in 1..3 : ts[i] = "bearish"})
    IN  IF trend_15m = "bullish" /\ bullish_count >= 3 THEN "long_only"
        ELSE IF trend_15m = "bearish" /\ bearish_count >= 3 THEN "short_only"
        ELSE "no_trade"

\* get_trade_mode after the three trends, lines 112-135
GetTradeMode(trend_15m, trend_5m, trend_1m) ==
    LET ts == <<trend_15m, trend_5m, trend_1m>>
        bullish_count == Cardinality({i \in 1..3 : ts[i] = "bullish"})
        bearish_count == Cardinality({i \in 1..3 : ts[i] = "bearish"})
    IN  IF trend_15m = "bullish" /\ bullish_count >= 2 THEN "long_only"
        ELSE IF trend_15m = "bearish" /\ bearish_count >= 2 THEN "short_only"
        ELSE "no_trade"

\* a call of get_trade_mode begins
CallGetTradeMode ==
    /\ trend_pc = "idle"
    /\ trend_pc' = "get_15min"
    /\ UNCHANGED <<trend_data, trends, trade_mode, outside_trend>>

\* line 108: await get_15min_trend(); data.is_empty() on None is an
\* AttributeError, which leaves get_trade_mode like an exception of get_data
Await15minTrend ==
    /\ trend_pc = "get_15min"
    /\ \E data \in Data15mResults :
          /\ trend_data' = [trend_data EXCEPT !.m15 = data]
          /\ IF data.kind = "frame"
             THEN /\ trends' = [trends EXCEPT !.m15 = Get15minTrend(data)]
                  /\ trend_pc' = "get_5min"
             ELSE /\ trends' = [trends EXCEPT !.m15 = "raised"]
                  /\ trend_pc' = "raised"
    /\ UNCHANGED <<trade_mode, outside_trend>>

\* line 109: await get_5min_trend()
Await5minTrend ==
    /\ trend_pc = "get_5min"
    /\ \E data \in Data5mTrendResults :
          /\ trend_data' = [trend_data EXCEPT !.m5 = data]
          /\ IF data.kind = "frame"
             THEN /\ trends' = [trends EXCEPT !.m5 = Get5minTrend(data)]
                  /\ trend_pc' = "get_1min"
             ELSE /\ trends' = [trends EXCEPT !.m5 = "raised"]
                  /\ trend_pc' = "raised"
    /\ UNCHANGED <<trade_mode, outside_trend>>

\* lines 110-135: await get_1min_trend(), then the aggregation and return
Await1minTrend ==
    /\ trend_pc = "get_1min"
    /\ \E data \in Data1mResults :
          /\ trend_data' = [trend_data EXCEPT !.m1 = data]
          /\ IF data.kind = "frame"
             THEN /\ trends' = [trends EXCEPT !.m1 = Get1minTrend(data)]
                  /\ trade_mode' = GetTradeMode(trends.m15, trends.m5, Get1minTrend(data))
                  /\ trend_pc' = "done"
             ELSE /\ trends' = [trends EXCEPT !.m1 = "raised"]
                  /\ trend_pc' = "raised"
                  /\ UNCHANGED trade_mode
    /\ UNCHANGED outside_trend

NextTrend ==
    \/ CallGetTradeMode
    \/ Await15minTrend
    \/ Await5minTrend
    \/ Await1minTrend

SpecTrend == Init /\ [][NextTrend]_vars

\* -------------------------------------------------------- SignalGenerator
outside_signal == <<exit_vars, trend_vars, main_vars, aux_vars>>

\* the insufficient-data test without the minimum length
EnoughBars_NoMinimum(data_15s) == data_15s.kind = "frame"

\* lines 52 and 160, negated: `data_15s is None or len(data_15s) < 100`
EnoughBars(data_15s) ==
    data_15s.kind = "frame" /\ data_15s.len >= MinBarsSignal

\* lines 61-69 (long) and 168-177 (short)
RsiCross(direction, data_15s) ==
    LET prev_rsi == data_15s.rsi[2]
        last_rsi == data_15s.rsi[3]
        recent_rsi == {data_15s.rsi[1], data_15s.rsi[2]}
    IN  IF direction = "long"
        THEN /\ \E x \in recent_rsi : x < RSI_OVERSOLD
             /\ prev_rsi < RSI_LONG_CROSS /\ last_rsi >= RSI_LONG_CROSS
        ELSE /\ \E x \in recent_rsi : x > RSI_OVERBOUGHT
             /\ prev_rsi > RSI_SHORT_CROSS /\ last_rsi <= RSI_SHORT_CROSS

\* lines 77-81 (long) and 185-189 (short)
WaeExplosion(direction, data_15s) ==
    /\ data_15s.explosion > data_15s.deadzone
    /\ IF direction = "long" THEN data_15s.trend > 0 ELSE data_15s.trend < 0

\* lines 73-85 (long) and 181-193 (short)
PriceBreak(direction, data_15s) ==
    IF direction = "long" THEN data_15s.close > data_15s.prev_high
    ELSE data_15s.close < data_15s.prev_low

\* _check_bullish_pattern (255-290) and _check_bearish_pattern (292-327)
CheckPattern(direction, pat) ==
    LET has_ob == /\ pat.ob
                  /\ IF direction = "long" THEN CurrentPrice >= pat.ob_edge
                     ELSE CurrentPrice <= pat.ob_edge
        has_fvg_fill == pat.fvg
    IN  /\ pat.kind = "frame" /\ pat.len >= MinBarsPattern
        /\ pat.price = "frame"
        /\ (has_ob \/ has_fvg_fill)

\* lines 98-121: the weighted score
SignalScore(cfg, s) ==
    (IF s.rsi_cross THEN cfg.weight_rsi ELSE 0)
    + (IF s.wae_explosion THEN cfg.weight_wae ELSE 0)
    + (IF s.price_break THEN cfg.weight_price ELSE 0)
    + (IF cfg.pattern_required
       THEN (IF s.pattern_edge THEN cfg.weight_pattern ELSE 0)
       ELSE (IF s.pattern_edge THEN cfg.weight_pattern \div 2 ELSE 0))

\* lines 100-118: the weights of the factors that count
TotalWeight(cfg) ==
    cfg.weight_rsi + cfg.weight_wae + cfg.weight_price
    + (IF cfg.pattern_required THEN cfg.weight_pattern ELSE 0)

\* the count with the pattern always among the core signals
SignalsMet_PatternCounts(cfg, s) ==
    Cardinality({f \in {"rsi_cross", "wae_explosion", "price_break", "pattern_edge"} : s[f]})

\* lines 124-128: the number of core signals met
SignalsMet(cfg, s) ==
    LET core_signals == {"rsi_cross", "wae_explosion", "price_break"}
                        \cup (IF cfg.pattern_required THEN {"pattern_edge"} ELSE {})
    IN  Cardinality({f \in core_signals : s[f]})

\* line 131
AllSignals(cfg, s) == SignalsMet(cfg, s) >= cfg.min_signals_required

\* SignalGenerator.__init__, lines 24-31: the requirements and the weights
NewSignalGenerator ==
    /\ sig_pc = "unbuilt"
    /\ \E cfg \in SignalConfigs : sig_cfg' = cfg
    /\ sig_pc' = "idle"
    /\ UNCHANGED <<sig_dir, sig_data, signals, all_signals, pattern_checked,
                   outside_signal>>

\* check_long_entry / check_short_entry begin, lines 42-48 and 151-157
CallCheckEntry(direction) ==
    /\ sig_pc = "idle"
    /\ sig_pc' = "fetch"
    /\ sig_dir' = direction
    /\ signals' = BlankSignals
    /\ UNCHANGED <<sig_cfg, sig_data, all_signals, pattern_checked, outside_signal>>

\* lines 51-87 and 159-195: the 15sec fetch, the early return on
\* insufficient data, the three factors of the 15sec frame
AwaitData15s ==
    /\ sig_pc = "fetch"
    /\ \E data_15s \in Data15sSignalResults :
          /\ sig_data' = [kind |-> data_15s.kind, len |-> data_15s.len]
          /\ IF data_15s.kind = "raised"
             THEN /\ sig_pc' = "raised"
                  /\ UNCHANGED <<signals, all_signals>>
             ELSE IF ~EnoughBars(data_15s)
             THEN /\ sig_pc' = "done"
                  /\ all_signals' = FALSE
                  /\ UNCHANGED signals
             ELSE /\ sig_pc' = "pattern"
                  /\ signals' = [signals EXCEPT
                        !.rsi_cross = RsiCross(sig_dir, data_15s),
                        !.wae_explosion = WaeExplosion(sig_dir, data_15s),
                        !.price_break = PriceBreak(sig_dir, data_15s)]
                  /\ UNCHANGED all_signals
    /\ UNCHANGED <<sig_cfg, sig_dir, pattern_checked, outside_signal>>

\* lines 89-145 and 197-253: the pattern check, the score, the decision
AwaitPattern ==
    /\ sig_pc = "pattern"
    /\ pattern_checked' = TRUE
    /\ \E pat \in PatternResults :
          IF pat.kind = "raised"
          THEN /\ sig_pc' = "raised"
               /\ UNCHANGED <<signals, all_signals>>
          ELSE LET s == [signals EXCEPT !.pattern_edge = CheckPattern(sig_dir, pat)]
               IN  /\ signals' = [s EXCEPT !.has_score = TRUE,
                                           !.score = SignalScore(sig_cfg, s),
                                           !.max_score = TotalWeight(sig_cfg),
                                           !.signals_met = SignalsMet(sig_cfg, s)]
                   /\ all_signals' = AllSignals(sig_cfg, s)
                   /\ sig_pc' = "done"
    /\ UNCHANGED <<sig_cfg, sig_dir, sig_data, outside_signal>>

NextSignal ==
    \/ NewSignalGenerator
    \/ \E direction \in {"long", "short"} : CallCheckEntry(direction)
    \/ AwaitData15s
    \/ AwaitPattern

SpecSignal == Init /\ [][NextSignal]_vars

\* ------------------------------------------------- TrendMomentumXStrategy
outside_main == <<exit_vars, trend_vars, signal_vars, aux_vars>>

\* update_volume_average_from_event, lines 189-196, the average rounded to
\* a whole unit of volume
UpdateVolumeAverage(avg, volume) ==
    IF avg = 0 THEN volume
    ELSE (2 * (volume + 9 * avg) + 10) \div 20

\* check_volume_filter, lines 342-365
CheckVolumeFilter(data_15s, avg) ==
    /\ data_15s.kind = "frame"
    /\ data_15s.len > 0
    /\ avg > 0
    /\ VolumeThresholdInverse * data_15s.volume >= avg

IdleTasks == {t \in Tasks : cycle[t].pc = "idle"}
FirstIdleTask ==
    TaskOrder[CHOOSE i \in 1..Len(TaskOrder) :
        /\ TaskOrder[i] \in IdleTasks
        /\ \A j \in 1..(i - 1) : TaskOrder[j] \notin IdleTasks]

Step(c, name) == [c EXCEPT !.steps = Append(@, name)]

\* initialize, line 86 (and run, line 498)
Initialize ==
    /\ ~running
    /\ sd_pc = "idle"
    /\ running' = TRUE
    /\ UNCHANGED <<bar_vars, cycle, order_vars, shutdown_vars, outside_main>>

\* on_new_bar without the test of self.running at line 159
OnNewBar_IgnoresRunning(timeframe, bar) ==
    /\ timeframe = "15sec" => IdleTasks # {}
    /\ latest_bars' = IF bar.empty THEN latest_bars ELSE latest_bars \cup {timeframe}
    /\ IF timeframe # "15sec"
       THEN /\ volume_avg_1min' =
                  IF timeframe = "1min" /\ ~bar.empty
                  THEN UpdateVolumeAverage(volume_avg_1min, bar.volume)
                  ELSE volume_avg_1min
            /\ UNCHANGED cycle
       ELSE /\ cycle' = [cycle EXCEPT ![FirstIdleTask].pc = "volume"]
            /\ UNCHANGED volume_avg_1min
    /\ UNCHANGED <<running, order_vars, shutdown_vars, outside_main>>

\* on_new_bar, lines 136-176
OnNewBar(timeframe, bar) ==
    /\ running /\ timeframe = "15sec" => IdleTasks # {}
    /\ latest_bars' = IF bar.empty THEN latest_bars ELSE latest_bars \cup {timeframe}
    /\ IF ~running
       THEN UNCHANGED <<volume_avg_1min, cycle>>
       ELSE IF timeframe # "15sec"
       THEN /\ volume_avg_1min' =
                  IF timeframe = "1min" /\ ~bar.empty
                  THEN UpdateVolumeAverage(volume_avg_1min, bar.volume)
                  ELSE volume_avg_1min
            /\ UNCHANGED cycle
       ELSE /\ cycle' = [cycle EXCEPT ![FirstIdleTask].pc = "volume"]
            /\ UNCHANGED volume_avg_1min
    /\ UNCHANGED <<running, order_vars, shutdown_vars, outside_main>>

\* process_trading_signal, line 295: await check_volume_filter()
AwaitVolumeFilter(t) ==
    /\ cycle[t].pc = "volume"
    /\ \E data_15s \in VolumeData :
          cycle' = [cycle EXCEPT ![t] =
              Step([@ EXCEPT !.pc = "imbalance",
                             !.volume_ok =
                                 IF CheckVolumeFilter(data_15s, volume_avg_1min)
                                 THEN "pass" ELSE "fail"], "volume")]
    /\ UNCHANGED <<running, bar_vars, order_vars, shutdown_vars, outside_main>>

\* lines 298-304: the imbalance is fetched for the log, then the cycle
\* returns unless the volume filter passed
AwaitMarketImbalance(t) ==
    /\ cycle[t].pc = "imbalance"
    /\ cycle' = [cycle EXCEPT ![t].pc =
                     IF cycle[t].volume_ok = "pass" THEN "mode" ELSE "done"]
    /\ UNCHANGED <<running, bar_vars, order_vars, shutdown_vars, outside_main>>

\* lines 311-323: await get_trade_mode(); an exception is re-raised and
\* ends the task in _process_signal_task
AwaitTradeMode(t) ==
    /\ cycle[t].pc = "mode"
    /\ \E mode \in {"long_only", "short_only", "no_trade", "raised"} :
          cycle' = [cycle EXCEPT ![t] =
              Step([@ EXCEPT !.trade_mode = mode,
                             !.pc = IF mode \in {"long_only", "short_only"}
                                    THEN "signal" ELSE "done"], "mode")]
    /\ UNCHANGED <<running, bar_vars, order_vars, shutdown_vars, outside_main>>

\* the signal check letting an invalid signal through
AwaitSignalCheck_NoGate(t) ==
    /\ cycle[t].pc = "signal"
    /\ \E valid \in {"yes", "no", "raised"} :
          cycle' = [cycle EXCEPT ![t] =
              Step([@ EXCEPT !.signal_valid = valid,
                             !.pc = IF valid \in {"yes", "no"}
                                    THEN "orderbook" ELSE "done"], "signal")]
    /\ UNCHANGED <<running, bar_vars, order_vars, shutdown_vars, outside_main>>

\* check_long_entry / check_short_entry, lines 371-374 and 394-397
AwaitSignalCheck(t) ==
    /\ cycle[t].pc = "signal"
    /\ \E valid \in {"yes", "no", "raised"} :
          cycle' = [cycle EXCEPT ![t] =
              Step([@ EXCEPT !.signal_valid = valid,
                             !.pc = IF valid = "yes" THEN "orderbook" ELSE "done"],
                   "signal")]
    /\ UNCHANGED <<running, bar_vars, order_vars, shutdown_vars, outside_main>>

\* lines 381-388 and 404-411: the order-book confirmation, then
\* enter_trade(direction) is called
AwaitOrderbookConfirmation(t) ==
    /\ cycle[t].pc = "orderbook"
    /\ \E confirmed \in {"yes", "no", "raised"} :
          cycle' = [cycle EXCEPT ![t] =
              Step([@ EXCEPT !.orderbook_confirmed = confirmed,
                             !.pc = IF confirmed = "yes" THEN "price" ELSE "done",
                             !.direction =
                                 IF confirmed # "yes" THEN "none"
                                 ELSE IF cycle[t].trade_mode = "long_only"
                                 THEN "long" ELSE "short"], "orderbook")]
    /\ UNCHANGED <<running, bar_vars, order_vars, shutdown_vars, outside_main>>

\* enter_trade, lines 419-422: the entry price
AwaitEntryPrice(t) ==
    /\ cycle[t].pc = "price"
    /\ \E current_price \in {"value", "none", "raised"} :
          cycle' = [cycle EXCEPT ![t].pc =
                       IF current_price = "value" THEN "stop" ELSE "done"]
    /\ UNCHANGED <<running, bar_vars, order_vars, shutdown_vars, outside_main>>

\* enter_trade, lines 425-426: the stop (awaited) and the target
AwaitStopPrice(t) ==
    /\ cycle[t].pc = "stop"
    /\ \E stop_price \in {"value", "raised"} :
          cycle' = [cycle EXCEPT ![t].pc =
                       IF stop_price = "value" THEN "submit" ELSE "done"]
    /\ UNCHANGED <<running, bar_vars, order_vars, shutdown_vars, outside_main>>

\* enter_trade, lines 435-439: managed_trade() is entered and enter_long or
\* enter_short places the entry order, unless the risk check refuses
SubmitEntry(t) ==
    /\ cycle[t].pc = "submit"
    /\ \E placed \in BOOLEAN :
          /\ cycle' = [cycle EXCEPT ![t] =
                 Step([@ EXCEPT !.pc = IF placed THEN "inflight" ELSE "done"], "submit")]
          /\ broker' = [broker EXCEPT ![t] = IF placed THEN "working" ELSE @]
    /\ UNCHANGED <<running, bar_vars, pending_orders, shutdown_vars, outside_main>>

\* enter_trade, lines 441-458: the submission returns and the order is
\* tracked when the result carries an entry order id
EntryReturns(t) ==
    /\ cycle[t].pc = "inflight"
    /\ \E has_id \in BOOLEAN :
          pending_orders' =
              IF has_id
              THEN (t :> [id |-> t, direction |-> cycle[t].direction,
                          status |-> "pending"]) @@ pending_orders
              ELSE pending_orders
    /\ cycle' = [cycle EXCEPT ![t].pc = "done"]
    /\ UNCHANGED <<running, bar_vars, broker, shutdown_vars, outside_main>>

\* on_order_filled taking up an order it does not know
OnOrderFilled_TracksUnknown(order_id) ==
    /\ broker[order_id] = "working"
    /\ broker' = [broker EXCEPT ![order_id] = "filled"]
    /\ pending_orders' =
          (order_id :> [id |-> order_id, direction |-> cycle[order_id].direction,
                        status |-> "active"]) @@ pending_orders
    /\ UNCHANGED <<running, bar_vars, cycle, shutdown_vars, outside_main>>

\* on_order_filled, lines 463-474, on the broker filling an entry order
OnOrderFilled(order_id) ==
    /\ broker[order_id] = "working"
    /\ broker' = [broker EXCEPT ![order_id] = "filled"]
    /\ pending_orders' =
          IF order_id \in DOMAIN pending_orders
          THEN [pending_orders EXCEPT ![order_id].status = "active"]
          ELSE pending_orders
    /\ UNCHANGED <<running, bar_vars, cycle, shutdown_vars, outside_main>>

\* on_order_failed, lines 476-484, on the broker cancelling or rejecting
OnOrderFailed(order_id) ==
    /\ broker[order_id] = "working"
    /\ broker' = [broker EXCEPT ![order_id] = "cancelled"]
    /\ pending_orders' =
          [o \in DOMAIN pending_orders \ {order_id} |-> pending_orders[o]]
    /\ UNCHANGED <<running, bar_vars, cycle, shutdown_vars, outside_main>>

\* the n-th key of the live dict, in insertion order
InActiveSet(p) == p \in DOMAIN active_positions
NextOrder(n) == SelectSeq(PositionOrder, InActiveSet)[n]

\* shutdown, lines 544-561, up to its first await: the flag, the live dict
\* of ExitManager, close_position for the first id, or disconnect at once
\* when no position is active
BeginShutdown ==
    /\ running
    /\ sd_pc = "idle"
    /\ running' = FALSE
    /\ sd_used' = Cardinality(DOMAIN active_positions)
    /\ IF DOMAIN active_positions = {}
       THEN /\ sd_pc' = "done"
            /\ disconnected' = TRUE
            /\ UNCHANGED <<sd_idx, sd_sent, close_attempts>>
       ELSE LET position_id == NextOrder(1)
            IN  /\ sd_pc' = "closing"
                /\ sd_idx' = 1
                /\ sd_sent' = sd_sent \cup {position_id}
                /\ close_attempts' = [close_attempts EXCEPT ![position_id] = Inc(@)]
                /\ UNCHANGED disconnected
    /\ UNCHANGED <<pending, active_positions, pc, exit_signal, now, obs,
                   breakeven_attempts, trend_vars, signal_vars, aux_vars,
                   bar_vars, cycle, order_vars>>

\* shutdown, lines 553-561: close_position has returned or raised (caught),
\* the for loop asks the live dict for the next id, which is a RuntimeError
\* once the dict has changed size; after the last id, disconnect
ShutdownNextPosition ==
    /\ sd_pc = "closing"
    /\ IF Cardinality(DOMAIN active_positions) # sd_used
       THEN /\ sd_pc' = "raised"
            /\ UNCHANGED <<sd_idx, sd_sent, disconnected, close_attempts>>
       ELSE IF sd_idx = sd_used
       THEN /\ sd_pc' = "done"
            /\ disconnected' = TRUE
            /\ UNCHANGED <<sd_idx, sd_sent, close_attempts>>
       ELSE LET position_id == NextOrder(sd_idx + 1)
            IN  /\ sd_idx' = sd_idx + 1
                /\ sd_sent' = sd_sent \cup {position_id}
                /\ close_attempts' = [close_attempts EXCEPT ![position_id] = Inc(@)]
                /\ UNCHANGED <<sd_pc, disconnected>>
    /\ UNCHANGED <<pending, active_positions, pc, exit_signal, now, obs,
                   breakeven_attempts, trend_vars, signal_vars, aux_vars,
                   running, sd_used, bar_vars, cycle, order_vars>>

NextMain ==
    \/ Initialize
    \/ \E timeframe \in BarTimeframes, bar \in Bars : OnNewBar(timeframe, bar)
    \/ \E t \in Tasks : AwaitVolumeFilter(t)
    \/ \E t \in Tasks : AwaitMarketImbalance(t)
    \/ \E t \in Tasks : AwaitTradeMode(t)
    \/ \E t \in Tasks : AwaitSignalCheck(t)
    \/ \E t \in Tasks : AwaitOrderbookConfirmation(t)
    \/ \E t \in Tasks : AwaitEntryPrice(t)
    \/ \E t \in Tasks : AwaitStopPrice(t)
    \/ \E t \in Tasks : SubmitEntry(t)
    \/ \E t \in Tasks : EntryReturns(t)
    \/ \E order_id \in Tasks : OnOrderFilled(order_id)
    \/ \E order_id \in Tasks : OnOrderFailed(order_id)
    \/ BeginShutdown

SpecMain == Init /\ [][NextMain]_vars

\* every task of the event loop that can run is eventually run
SpecMainFair == SpecMain /\ WF_vars(NextMain)

\* a position as manage_position records it (lines 24-41), here a long one
\* with a risk of one tick entered at time 0
ManagedRecord ==
    [entry_time |-> 0,
     entry_price |-> EntryPrice,
     stop_price |-> EntryPrice - 1,
     target_price |-> CalculateTargetPrice(EntryPrice, EntryPrice - 1, "long"),
     direction |-> "long",
     size |-> 1,
     trailing_stop_activated |-> FALSE,
     breakeven_activated |-> FALSE]
StopPriceSeen == [kind |-> "value", value |-> EntryPrice - 1]

\* the strategy is running and three positions are monitored, each loop
\* having just found the price at its stop
InitShutdown ==
    /\ pending = {}
    /\ active_positions = [p \in ShutdownIds |-> ManagedRecord]
    /\ pc = [p \in ShutdownIds |-> "exit"]
    /\ exit_signal = [p \in ShutdownIds |-> Exit("Stop loss hit")]
    /\ now = 0
    /\ obs = [p \in ShutdownIds |-> [BlankObs EXCEPT !.check_price = StopPriceSeen]]
    /\ close_attempts = [p \in ShutdownIds |-> 0]
    /\ breakeven_attempts = [p \in ShutdownIds |-> 0]
    /\ TrendIdle
    /\ SignalIdle
    /\ running = TRUE
    /\ volume_avg_1min = 0
    /\ latest_bars = {}
    /\ cycle = [t \in Tasks |-> CycleIdle]
    /\ pending_orders = << >>
    /\ broker = [t \in Tasks |-> "none"]
    /\ sd_pc = "idle"
    /\ sd_idx = 0
    /\ sd_used = 0
    /\ sd_sent = {}
    /\ disconnected = FALSE
    /\ AuxIdle

NextShutdown ==
    \/ \E p \in ShutdownIds : ExitPosition(p)
    \/ BeginShutdown
    \/ ShutdownNextPosition

SpecShutdown == InitShutdown /\ [][NextShutdown]_vars

\* the running strategy with three monitored positions: bars, decision
\* cycles and order events go on while shutdown awaits each close_position
NextStopping ==
    \/ \E timeframe \in BarTimeframes, bar \in Bars : OnNewBar(timeframe, bar)
    \/ \E t \in Tasks : AwaitVolumeFilter(t)
    \/ \E t \in Tasks : AwaitMarketImbalance(t)
    \/ \E t \in Tasks : AwaitTradeMode(t)
    \/ \E t \in Tasks : AwaitSignalCheck(t)
    \/ \E t \in Tasks : AwaitOrderbookConfirmation(t)
    \/ \E t \in Tasks : AwaitEntryPrice(t)
    \/ \E t \in Tasks : AwaitStopPrice(t)
    \/ \E t \in Tasks : SubmitEntry(t)
    \/ \E t \in Tasks : EntryReturns(t)
    \/ \E order_id \in Tasks : OnOrderFilled(order_id)
    \/ \E order_id \in Tasks : OnOrderFailed(order_id)
    \/ BeginShutdown
    \/ ShutdownNextPosition

SpecStopping == InitShutdown /\ [][NextStopping]_vars

\* ------------------------------------------- the invocations of shutdown
outside_calls == <<pending, active_positions, pc, exit_signal, now, obs,
                   breakeven_attempts, trend_vars, signal_vars, bar_vars, cycle,
                   order_vars, shutdown_vars, orderbook_vars, risk_vars,
                   entry_vars, loop_vars, details_vars, task_vars,
                   breakeven_vars>>

\* shutdown going on whatever self.running says
ShutdownReturnsAtOnce_Never(running_) == FALSE

\* shutdown, lines 544-545: `if not self.running: return`
ShutdownReturnsAtOnce(running_) == ~running_

CallEnded(c) == sd_call[c].pc \in {"returned", "done", "raised", "cancelled"}

\* when the program reaches each call: the SIGINT handler creates its task
\* while main is on the event loop, run reaches its finally when its loop
\* ends (running false) or the task is cancelled, main reaches its finally
\* when run has returned or raised
MayInvoke(c) ==
    CASE c = "signal_handler" -> ~CallEnded("main_finally")
      [] c = "run_finally" -> TRUE
      [] c = "main_finally" -> CallEnded("run_finally")

\* shutdown, lines 543-561, from the call to its first await
Shutdown_Call(c) ==
    /\ sd_call[c].pc = "idle"
    /\ MayInvoke(c)
    /\ sd_calls_made' = sd_calls_made + 1
    /\ IF ShutdownReturnsAtOnce(running)
       THEN /\ sd_call' = [sd_call EXCEPT ![c] =
                   [@ EXCEPT !.pc = "returned", !.number = sd_calls_made + 1]]
            /\ UNCHANGED <<running, close_attempts>>
       ELSE /\ running' = FALSE
            /\ IF DOMAIN active_positions = {}
               THEN /\ sd_call' = [sd_call EXCEPT ![c] =
                           [@ EXCEPT !.pc = "done", !.number = sd_calls_made + 1,
                                     !.disconnected = TRUE]]
                    /\ UNCHANGED close_attempts
               ELSE LET position_id == NextOrder(1)
                    IN  /\ sd_call' = [sd_call EXCEPT ![c] =
                               [@ EXCEPT !.pc = "closing",
                                         !.number = sd_calls_made + 1,
                                         !.used = Cardinality(DOMAIN active_positions),
                                         !.idx = 1,
                                         !.sent = {position_id}]]
                        /\ close_attempts' =
                              [close_attempts EXCEPT ![position_id] = Inc(@)]
    /\ UNCHANGED outside_calls

\* shutdown, lines 553-561: after a close_position the for loop takes the
\* next id of the live dict (a RuntimeError once its size has changed),
\* and after the last id disconnect() is called
Shutdown_NextPosition(c) ==
    /\ sd_call[c].pc = "closing"
    /\ IF Cardinality(DOMAIN active_positions) # sd_call[c].used
       THEN /\ sd_call' = [sd_call EXCEPT ![c].pc = "raised"]
            /\ UNCHANGED close_attempts
       ELSE IF sd_call[c].idx = sd_call[c].used
       THEN /\ sd_call' = [sd_call EXCEPT ![c].pc = "done",
                                          ![c].disconnected = TRUE]
            /\ UNCHANGED close_attempts
       ELSE LET position_id == NextOrder(sd_call[c].idx + 1)
            IN  /\ sd_call' = [sd_call EXCEPT ![c].idx = @ + 1,
                                              ![c].sent = @ \cup {position_id}]
                /\ close_attempts' = [close_attempts EXCEPT ![position_id] = Inc(@)]
    /\ UNCHANGED <<running, sd_calls_made, outside_calls>>

\* asyncio.run (line 587) cancels the tasks left when main has returned:
\* the shutdown of the signal handler stops at its await
Shutdown_TaskCancelled ==
    /\ sd_call["signal_handler"].pc = "closing"
    /\ CallEnded("main_finally")
    /\ sd_call' = [sd_call EXCEPT !["signal_handler"].pc = "cancelled"]
    /\ UNCHANGED <<running, close_attempts, sd_calls_made, outside_calls>>

NextShutdownCalls ==
    \/ \E p \in ShutdownIds : ExitPosition(p)
    \/ \E c \in ShutdownCallers : Shutdown_Call(c)
    \/ \E c \in ShutdownCallers : Shutdown_NextPosition(c)
    \/ Shutdown_TaskCancelled

SpecShutdownCalls == InitShutdown /\ [][NextShutdownCalls]_vars

\* ------------------------------------- decision cycles as call stacks
outside_tasks == <<exit_vars, trend_vars, signal_vars, cycle, order_vars,
                   shutdown_vars, orderbook_vars, risk_vars, entry_vars,
                   loop_vars, details_vars,
                   breakeven_vars, call_vars>>

\* the coroutines on the stack of a task at each await, outermost first:
\* process_trading_signal awaits check_volume_filter (295),
\* get_market_imbalance (299) and get_trade_mode (311) itself, and
\* check_long_entry / check_short_entry (319, 322) await the signal check
\* (371, 394), the order-book confirmation (381, 404) and enter_trade
\* (388, 411)
Frames(step) ==
    <<"_process_signal_task", "process_trading_signal">>
    \o CASE step = "volume" -> <<"check_volume_filter">>
         [] step = "imbalance" -> <<"get_market_imbalance">>
         [] step = "mode" -> <<"get_trade_mode">>
         [] step = "signal" -> <<"check_entry", "signal_check">>
         [] step = "orderbook" -> <<"check_entry", "confirm_entry">>
         [] step = "entry" -> <<"check_entry", "enter_trade">>

\* the handlers, with _process_signal_task letting the exception go
Catches_TaskUnguarded(frame) ==
    IF frame \in {"on_new_bar", "check_volume_filter", "get_market_imbalance",
                  "enter_trade"}
    THEN "return"
    ELSE IF frame = "process_trading_signal" THEN "reraise"
    ELSE "none"

\* what the `except Exception` of a coroutine does: on_new_bar (174-176),
\* _process_signal_task (183-184), check_volume_filter (363-365),
\* get_market_imbalance (orderbook.py 31-33) and enter_trade (460-461) log
\* and return, process_trading_signal (327-330) logs and re-raises, the
\* others have no handler
Catches(frame) ==
    IF frame \in {"on_new_bar", "_process_signal_task", "check_volume_filter",
                  "get_market_imbalance", "enter_trade"}
    THEN "return"
    ELSE IF frame = "process_trading_signal" THEN "reraise"
    ELSE "none"

\* the innermost coroutine of the stack that ends the exception
CaughtBy(frames) ==
    LET catching == {i \in 1..Len(frames) : Catches(frames[i]) = "return"}
    IN  IF catching = {} THEN "nobody"
        ELSE frames[CHOOSE i \in catching : \A j \in catching : j <= i]

UnbornTasks == {t \in Tasks : tasks[t].pc = "unborn"}
FirstUnbornTask ==
    TaskOrder[CHOOSE i \in 1..Len(TaskOrder) :
        /\ TaskOrder[i] \in UnbornTasks
        /\ \A j \in 1..(i - 1) : TaskOrder[j] \notin UnbornTasks]
EndedTasks == {t \in Tasks : tasks[t].pc = "ended"}

\* on_new_bar, lines 136-176, on any event: the cache, then the exception
\* of a malformed bar or the tests of running and of the timeframe
Task_OnNewBar(event) ==
    LET starts == ~event.malformed /\ running /\ event.timeframe = "15sec"
    IN  /\ starts => UnbornTasks # {}
        /\ latest_bars' = IF event.bar.empty THEN latest_bars
                          ELSE latest_bars \cup {event.timeframe}
        /\ handler_raised' =
              IF event.malformed /\ CaughtBy(<<"on_new_bar">>) = "nobody"
              THEN TRUE ELSE handler_raised
        /\ volume_avg_1min' =
              IF /\ ~event.malformed /\ running
                 /\ event.timeframe = "1min" /\ ~event.bar.empty
              THEN UpdateVolumeAverage(volume_avg_1min, event.bar.volume)
              ELSE volume_avg_1min
        /\ tasks' =
              IF starts
              THEN [tasks EXCEPT ![FirstUnbornTask] =
                       [@ EXCEPT !.pc = "volume", !.after = EndedTasks]]
              ELSE tasks
        /\ UNCHANGED <<running, outside_tasks>>

\* where process_trading_signal goes on after an await that returned
AfterStep(task, step, went_on) ==
    CASE step = "volume" -> [task EXCEPT !.pc = "imbalance", !.volume_ok = went_on]
      [] step = "imbalance" ->
            IF task.volume_ok THEN [task EXCEPT !.pc = "mode"]
            ELSE [task EXCEPT !.pc = "ended", !.end = "returned"]
      [] step = "entry" -> [task EXCEPT !.pc = "ended", !.end = "returned"]
      [] OTHER ->
            IF went_on
            THEN [task EXCEPT !.pc =
                      CASE step = "mode" -> "signal"
                        [] step = "signal" -> "orderbook"
                        [] step = "orderbook" -> "entry"]
            ELSE [task EXCEPT !.pc = "ended", !.end = "returned"]

\* an exception raised under the innermost coroutine of an await: the
\* coroutine that catches it returns as on a failure (False, None or
\* nothing), _process_signal_task ends the task, and an exception nobody
\* catches ends the task with the exception set on it
AfterRaise(task, step) ==
    LET catcher == CaughtBy(Frames(step))
        logged == [task EXCEPT !.raised_in = step, !.caught_by = catcher]
    IN  IF catcher = "nobody"
        THEN [logged EXCEPT !.pc = "ended", !.end = "failed"]
        ELSE IF catcher = Frames(step)[Len(Frames(step))]
        THEN AfterStep(logged, step, FALSE)
        ELSE [logged EXCEPT !.pc = "ended", !.end = "returned"]

\* one await of process_trading_signal and of what it calls, lines 288-330
\* with 367-411 and 413-461: it returns for going on, returns for giving
\* up, or raises
Task_Await(t) ==
    /\ tasks[t].pc \in TaskStepNames
    /\ \E outcome \in {"on", "off", "raise"} :
          tasks' = [tasks EXCEPT ![t] =
              IF outcome = "raise" THEN AfterRaise(@, @.pc)
              ELSE AfterStep(@, @.pc, outcome = "on")]
    /\ UNCHANGED <<running, bar_vars, handler_raised, outside_tasks>>

NextTasks ==
    \/ Initialize
    \/ \E event \in BarEvents : Task_OnNewBar(event)
    \/ \E t \in Tasks : Task_Await(t)
    \/ BeginShutdown

SpecTasks == Init /\ [][NextTasks]_vars

\* ------------------------------------------- one breakeven attempt
outside_breakeven == <<exit_vars, trend_vars, signal_vars, main_vars,
                       orderbook_vars, risk_vars, entry_vars, loop_vars,
                       details_vars, task_vars, call_vars>>

BrokerCall(call, result) == [call |-> call, result |-> result]
Outcome(ok) == IF ok THEN "ok" ELSE "raised"

\* manage_position, lines 24-41, for a position whose bracket stop order
\* works at the broker at the position's stop price
Breakeven_ManagePosition(position) ==
    /\ be_pc = "idle"
    /\ be_position' =
          [entry_time |-> 0,
           entry_price |-> position.entry_price,
           stop_price |-> position.stop_price,
           target_price |-> position.target_price,
           direction |-> position.direction,
           size |-> position.size,
           trailing_stop_activated |-> FALSE,
           breakeven_activated |-> FALSE]
    /\ stop_order' = [kind |-> "working", price |-> position.stop_price]
    /\ be_pc' = "activate"
    /\ UNCHANGED <<be_seen, be_calls, outside_breakeven>>

\* _check_trailing_activation, lines 133-158, and _move_stop_to_breakeven
\* up to its first broker call, lines 166-184
Breakeven_Check(price, instrument) ==
    /\ be_pc = "activate"
    /\ trailing_enabled /\ ~be_position.trailing_stop_activated
    /\ be_seen' = [price |-> price, instrument |-> instrument.kind]
    /\ be_calls' = << >>
    /\ IF ~(Truthy(price) /\ BreakevenTriggered(be_position, price.value))
       THEN UNCHANGED <<be_pc, be_position>>
       ELSE IF be_position.breakeven_activated \/ instrument.kind # "instrument"
       THEN /\ be_position' = [be_position EXCEPT !.trailing_stop_activated = TRUE]
            /\ be_pc' = "done"
       ELSE /\ be_pc' = "modify"
            /\ UNCHANGED be_position
    /\ UNCHANGED <<stop_order, outside_breakeven>>

\* lines 184-189: modify_order returns, and the broker has moved the stop,
\* or raises, and the broker has done nothing
Breakeven_Modify(instrument) ==
    /\ be_pc = "modify"
    /\ instrument.kind = "instrument"
    /\ \E modify_ok \in BOOLEAN :
          /\ be_calls' = Append(be_calls, BrokerCall("modify_order", Outcome(modify_ok)))
          /\ IF modify_ok
             THEN /\ stop_order' = [kind |-> "working",
                                    price |-> NewBreakevenStop(be_position, instrument)]
                  /\ be_position' =
                        [MoveStopToBreakeven(be_position, instrument, TRUE, TRUE, TRUE)
                            EXCEPT !.trailing_stop_activated = TRUE]
                  /\ be_pc' = "done"
             ELSE /\ be_pc' = "cancel"
                  /\ UNCHANGED <<stop_order, be_position>>
    /\ UNCHANGED <<be_seen, outside_breakeven>>

\* lines 190-193: cancel_order returns, and the old stop is gone, or raises
Breakeven_Cancel(instrument) ==
    /\ be_pc = "cancel"
    /\ instrument.kind = "instrument"
    /\ \E cancel_ok \in BOOLEAN :
          /\ be_calls' = Append(be_calls, BrokerCall("cancel_order", Outcome(cancel_ok)))
          /\ IF cancel_ok
             THEN /\ stop_order' = NoStopOrder
                  /\ be_pc' = "place"
                  /\ UNCHANGED be_position
             ELSE /\ be_position' =
                        [MoveStopToBreakeven(be_position, instrument, FALSE, FALSE, TRUE)
                            EXCEPT !.trailing_stop_activated = TRUE]
                  /\ be_pc' = "done"
                  /\ UNCHANGED stop_order
    /\ UNCHANGED <<be_seen, outside_breakeven>>

\* lines 194-202: place_stop_order returns, and the new stop works, or
\* raises; then line 155 or 163 of _check_trailing_activation
Breakeven_Place(instrument) ==
    /\ be_pc = "place"
    /\ instrument.kind = "instrument"
    /\ \E place_ok \in BOOLEAN :
          /\ be_calls' = Append(be_calls, BrokerCall("place_stop_order", Outcome(place_ok)))
          /\ stop_order' =
                IF place_ok
                THEN [kind |-> "working",
                      price |-> NewBreakevenStop(be_position, instrument)]
                ELSE stop_order
          /\ be_position' =
                [MoveStopToBreakeven(be_position, instrument, FALSE, TRUE, place_ok)
                    EXCEPT !.trailing_stop_activated = TRUE]
          /\ be_pc' = "done"
    /\ UNCHANGED <<be_seen, outside_breakeven>>

NextBreakeven ==
    \/ \E position \in PositionInputs : Breakeven_ManagePosition(position)
    \/ \E price \in BreakevenPrices, instrument \in BreakevenInstruments :
          Breakeven_Check(price, instrument)
    \/ \E instrument \in Instruments : Breakeven_Modify(instrument)
    \/ \E instrument \in Instruments : Breakeven_Cancel(instrument)
    \/ \E instrument \in Instruments : Breakeven_Place(instrument)

SpecBreakeven == Init /\ [][NextBreakeven]_vars

\* ---------------------------------------- TrendAnalyzer.get_trend_details
outside_details == <<exit_vars, trend_vars, signal_vars, main_vars, orderbook_vars,
                     risk_vars, entry_vars, loop_vars, task_vars,
                   breakeven_vars, call_vars>>

\* a trend getter on what get_data returned: the trend of a frame, an
\* exception for None (data.is_empty() on None) and for a failed fetch
TrendOf(timeframe, data) ==
    IF data.kind # "frame" THEN "raised"
    ELSE IF timeframe = "m15" THEN Get15minTrend(data)
    ELSE IF timeframe = "m5" THEN Get5minTrend(data)
    ELSE Get1minTrend(data)

\* the analyzer keeps the last trade mode in place of macd_signal
AnalyzerAfter_Remember(analyzer_, result) ==
    [analyzer_ EXCEPT !.macd_signal = IF result.trade_mode = "long_only" THEN 1 ELSE 0]

\* get_trend_details and the getters it calls assign no attribute of self
AnalyzerAfter(analyzer_, result) == analyzer_

\* the data of the three timeframes arrive
NewMarketData ==
    /\ UNCHANGED outside_details
    /\ details_pc.call = 0
    /\ market = NoTrendData
    /\ \E m15 \in Data15mResults, m5 \in Data5mTrendResults, m1 \in Data1mResults :
          market' = [m15 |-> m15, m5 |-> m5, m1 |-> m1]
    /\ market' # NoTrendData
    /\ UNCHANGED <<analyzer, details_pc, details>>

\* get_trend_details is called (line 137)
CallGetTrendDetails ==
    /\ UNCHANGED outside_details
    /\ market # NoTrendData
    /\ details_pc.step = 0
    /\ details_pc.call + 1 \in DetailCalls
    /\ details_pc' = [call |-> details_pc.call + 1, step |-> 1]
    /\ UNCHANGED <<market, analyzer, details>>

\* lines 139-141: one of the three trend calls of get_trend_details returns
AwaitDetailsTrend ==
    LET k == details_pc.call
        timeframe == DetailSteps[details_pc.step]
        trend == TrendOf(timeframe, market[timeframe])
        result == [details[k] EXCEPT ![timeframe] = trend]
    IN  /\ UNCHANGED outside_details
        /\ details_pc.step \in 1..3
        /\ details' = [details EXCEPT ![k] = result]
        /\ details_pc' = [details_pc EXCEPT !.step = IF trend = "raised" THEN 0 ELSE @ + 1]
        /\ analyzer' = IF trend = "raised" THEN AnalyzerAfter(analyzer, result)
                       ELSE analyzer
        /\ UNCHANGED market

\* line 142 with get_trade_mode, lines 108-135: its three trend calls return
\* one after the other, then the mode is aggregated and the dict returned
AwaitDetailsTradeMode ==
    LET k == details_pc.call
        fetched == [t \in {"m15", "m5", "m1"} |-> TrendOf(t, market[t])]
        timeframe == IF details_pc.step = 4 THEN "m15"
                     ELSE IF details_pc.step = 5 THEN "m5" ELSE "m1"
        raised == fetched[timeframe] = "raised"
        result == [details[k] EXCEPT !.trade_mode =
                      IF raised THEN "raised"
                      ELSE GetTradeMode(fetched.m15, fetched.m5, fetched.m1)]
    IN  /\ UNCHANGED outside_details
        /\ details_pc.step \in 4..6
        /\ IF raised \/ details_pc.step = 6
           THEN /\ details' = [details EXCEPT ![k] = result]
                /\ details_pc' = [details_pc EXCEPT !.step = 0]
                /\ analyzer' = AnalyzerAfter(analyzer, result)
           ELSE /\ details_pc' = [details_pc EXCEPT !.step = @ + 1]
                /\ UNCHANGED <<details, analyzer>>
        /\ UNCHANGED market

NextDetails ==
    \/ NewMarketData
    \/ CallGetTrendDetails
    \/ AwaitDetailsTrend
    \/ AwaitDetailsTradeMode

SpecDetails == Init /\ [][NextDetails]_vars

\* ------------------------------- get_trend_details on a changing market
outside_live == <<exit_vars, trend_pc, trend_data, trade_mode, signal_vars,
                  main_vars, orderbook_vars, risk_vars, entry_vars, loop_vars,
                  task_vars, breakeven_vars, call_vars>>

\* new bars arrive: get_data returns other frames from now on
Live_MarketChanges ==
    /\ \E data \in LiveMarkets : market' = data
    /\ market' # market
    /\ UNCHANGED <<analyzer, details_pc, details, trends, outside_live>>

\* get_trend_details is called (line 137)
Live_CallGetTrendDetails ==
    /\ market # NoTrendData
    /\ details_pc = [call |-> 0, step |-> 0]
    /\ details_pc' = [call |-> 1, step |-> 1]
    /\ UNCHANGED <<market, analyzer, details, trends, outside_live>>

\* line 142 with get_trade_mode, lines 108-135: each of its three trend
\* calls fetches the data of the moment into trend_15m, trend_5m and
\* trend_1m; after the third the mode is aggregated from these locals and
\* the dict is returned
Live_AwaitDetailsTradeMode ==
    LET k == details_pc.call
        timeframe == IF details_pc.step = 4 THEN "m15"
                     ELSE IF details_pc.step = 5 THEN "m5" ELSE "m1"
        trend == TrendOf(timeframe, market[timeframe])
        fetched == [trends EXCEPT ![timeframe] = trend]
        result == [details[k] EXCEPT !.trade_mode =
                      IF trend = "raised" THEN "raised"
                      ELSE GetTradeMode(fetched.m15, fetched.m5, fetched.m1)]
    IN  /\ details_pc.step \in 4..6
        /\ trends' = fetched
        /\ IF trend = "raised" \/ details_pc.step = 6
           THEN /\ details' = [details EXCEPT ![k] = result]
                /\ details_pc' = [details_pc EXCEPT !.step = 0]
                /\ analyzer' = AnalyzerAfter(analyzer, result)
           ELSE /\ details_pc' = [details_pc EXCEPT !.step = @ + 1]
                /\ UNCHANGED <<details, analyzer>>
        /\ UNCHANGED <<market, outside_live>>

NextDetailsLive ==
    \/ Live_MarketChanges
    \/ Live_CallGetTrendDetails
    \/ AwaitDetailsTrend
    \/ Live_AwaitDetailsTradeMode

SpecDetailsLive == Init /\ [][NextDetailsLive]_vars

\* ------------------------------------------------------- OrderBookAnalyzer
outside_orderbook == <<exit_vars, trend_vars, signal_vars, main_vars, risk_vars,
                       entry_vars, loop_vars, details_vars, task_vars,
                   breakeven_vars, call_vars>>

\* get_market_imbalance, lines 18-33, with the imbalance of an unavailable
\* book taken as 0
GetMarketImbalance_ZeroDefault(result) ==
    [kind |-> "value",
     value |-> IF result.kind = "value" THEN result.depth_imbalance ELSE 0]

\* get_market_imbalance, lines 18-33: the float of the result's
\* depth_imbalance, None in every other case
GetMarketImbalance(result) ==
    IF result.kind = "value"
    THEN [kind |-> "value", value |-> result.depth_imbalance]
    ELSE NoImbalance

\* detect_icebergs, lines 35-53: the iceberg levels of the result, an empty
\* list in every other case
DetectIcebergs(result) ==
    IF result.kind = "levels" THEN result.iceberg_levels ELSE << >>

\* lines 76 and 119: the threshold test that lets the confirmation go on
ImbalanceSufficient(direction, imbalance) ==
    IF direction = "long"
    THEN ~(imbalance < IMBALANCE_LONG_THRESHOLD)
    ELSE ~(imbalance > IMBALANCE_SHORT_THRESHOLD)

\* the iceberg levels of every side
BlockingIcebergs_AnySide(direction, icebergs) == icebergs

\* ask_icebergs of confirm_long_entry (line 86), bid_icebergs of
\* confirm_short_entry (line 129)
BlockingIcebergs(direction, icebergs) ==
    LET Against(ice) == ice = (IF direction = "long" THEN "ask" ELSE "bid")
    IN  SelectSeq(icebergs, Against)

\* OrderBookAnalyzer.__init__, iceberg_check_enabled read from the
\* environment
NewOrderBookAnalyzer ==
    /\ UNCHANGED outside_orderbook
    /\ ob_pc = "unbuilt"
    /\ \E enabled \in BOOLEAN : iceberg_check_enabled' = enabled
    /\ ob_pc' = "idle"
    /\ UNCHANGED <<ob_dir, ob_seen, confirmation, ob_returned, icebergs_detected>>

\* confirm_long_entry / confirm_short_entry up to the first await
\* (lines 55-66, 98-109)
CallConfirmEntry(direction) ==
    /\ UNCHANGED outside_orderbook
    /\ ob_pc \in {"idle", "done"}
    /\ ob_pc' = "imbalance"
    /\ ob_dir' = direction
    /\ ob_seen' = [kind |-> "none", depth_imbalance |-> 0]
    /\ confirmation' = BlankConfirmation
    /\ ob_returned' = "none"
    /\ icebergs_detected' = FALSE
    /\ UNCHANGED iceberg_check_enabled

\* lines 66-96 (109-139) from the return of get_market_imbalance to the
\* return of the call or to the await of detect_icebergs
AwaitImbalance ==
    /\ UNCHANGED outside_orderbook
    /\ ob_pc = "imbalance"
    /\ \E result \in ImbalanceResults :
        LET imbalance == GetMarketImbalance(result)
            side == IF ob_dir = "long" THEN "bid" ELSE "ask"
        IN  /\ ob_seen' = result
            /\ IF imbalance.kind = "none"
               THEN /\ confirmation' =
                         [confirmation EXCEPT !.reason = "OrderBook data unavailable"]
                    /\ ob_returned' = "false"
                    /\ ob_pc' = "done"
               ELSE IF ~ImbalanceSufficient(ob_dir, imbalance.value)
               THEN /\ confirmation' =
                         [confirmation EXCEPT
                            !.imbalance = imbalance,
                            !.reason = "Insufficient " \o side \o " imbalance"]
                    /\ ob_returned' = "false"
                    /\ ob_pc' = "done"
               ELSE IF iceberg_check_enabled
               THEN /\ confirmation' = [confirmation EXCEPT !.imbalance = imbalance]
                    /\ ob_returned' = "none"
                    /\ ob_pc' = "icebergs"
               ELSE /\ confirmation' =
                         [confirmation EXCEPT
                            !.imbalance = imbalance,
                            !.confirmed = TRUE,
                            !.reason = "Entry confirmed with imbalance"]
                    /\ ob_returned' = "true"
                    /\ ob_pc' = "done"
    /\ UNCHANGED <<iceberg_check_enabled, ob_dir, icebergs_detected>>

\* lines 83-96 (126-139) from the return of detect_icebergs
AwaitIcebergs ==
    /\ UNCHANGED outside_orderbook
    /\ ob_pc = "icebergs"
    /\ \E result \in IcebergResults :
        LET icebergs == DetectIcebergs(result)
            against == IF ob_dir = "long" THEN "ask" ELSE "bid"
        IN  IF BlockingIcebergs(ob_dir, icebergs) # << >>
            THEN /\ confirmation' =
                      [confirmation EXCEPT
                         !.icebergs = icebergs,
                         !.reason = "Detected iceberg orders on " \o against \o " side"]
                 /\ ob_returned' = "false"
            ELSE /\ confirmation' =
                      [confirmation EXCEPT
                         !.icebergs = icebergs,
                         !.confirmed = TRUE,
                         !.reason = "Entry confirmed with imbalance"]
                 /\ ob_returned' = "true"
    /\ icebergs_detected' = TRUE
    /\ ob_pc' = "done"
    /\ UNCHANGED <<iceberg_check_enabled, ob_dir, ob_seen>>

NextOrderbook ==
    \/ NewOrderBookAnalyzer
    \/ \E direction \in {"long", "short"} : CallConfirmEntry(direction)
    \/ AwaitImbalance
    \/ AwaitIcebergs

SpecOrderbook == Init /\ [][NextOrderbook]_vars

\* ------------------------------------------------------------- RiskManager
outside_risk == <<exit_vars, trend_vars, signal_vars, main_vars, orderbook_vars,
                  entry_vars, loop_vars, details_vars, task_vars,
                   breakeven_vars, call_vars>>

Min(a, b) == IF a < b THEN a ELSE b
Max(a, b) == IF a > b THEN a ELSE b

\* the clamp of lines 57-59 without its lower end
ClampSize_NoMinimum(position_size_) == Min(position_size_, MAX_POSITION_SIZE)

\* lines 57-59: min(position_size, max position size), then max(1, .)
ClampSize(position_size_) == Max(1, Min(position_size_, MAX_POSITION_SIZE))

\* the body of lines 36-59 with the test of line 52 left out
PositionSizeOf_Unguarded(balance, tick_value, tick_size, entry_price, stop_price) ==
    LET risk_amount == RISK_PER_TRADE * balance
        stop_distance == Abs(entry_price - stop_price)
        per_contract == stop_distance * tick_value
    IN  IF per_contract = 0 THEN [kind |-> "size", value |-> MAX_POSITION_SIZE]
        ELSE [kind |-> "size",
              value |-> ClampSize((risk_amount * tick_size) \div per_contract)]

\* lines 36, 48-59: risk_amount / (stop distance / tick_size * tick_value),
\* truncated; the quotient is never negative here, both the risk amount and
\* the risk per contract being positive
PositionSizeOf(balance, tick_value, tick_size, entry_price, stop_price) ==
    LET risk_amount == RISK_PER_TRADE * balance
        stop_distance == Abs(entry_price - stop_price)
        per_contract == stop_distance * tick_value
    IN  IF per_contract <= 0 THEN NoSize
        ELSE [kind |-> "size",
              value |-> ClampSize((risk_amount * tick_size) \div per_contract)]

\* calculate_position_size, lines 27-59
CalculatePositionSizeOf(account_info, instrument, entry_price, stop_price) ==
    LET balance == IF account_info.kind = "account" THEN account_info.balance ELSE 0
    IN  IF account_info.kind = "none" THEN NoSize
        ELSE IF balance <= 0 THEN NoSize
        ELSE IF instrument.kind \in {"none", "no_tick_value"} THEN NoSize
        ELSE IF instrument.tickValue = 0 \/ instrument.tickSize = 0 THEN NoSize
        ELSE PositionSizeOf(balance, instrument.tickValue, instrument.tickSize,
                            entry_price, stop_price)

\* can_trade, lines 99-109
CanTrade(daily, weekly, open) ==
    /\ ~(daily <= -MAX_DAILY_LOSS)
    /\ ~(weekly <= -MAX_WEEKLY_LOSS)
    /\ ~(open >= MAX_CONCURRENT_TRADES)

\* calculate_position_size, which has no await
CalculatePositionSize(entry_price, stop_price) ==
    /\ UNCHANGED outside_risk
    /\ \E account_info \in AccountInfos, instrument \in SizingInstruments :
          /\ sizing' = [account_info |-> account_info, instrument |-> instrument,
                        entry_price |-> entry_price, stop_price |-> stop_price]
          /\ position_size' =
                CalculatePositionSizeOf(account_info, instrument, entry_price, stop_price)
    /\ UNCHANGED <<daily_pnl, weekly_pnl, open_positions>>

\* update_pnl, lines 111-113
UpdatePnl(daily, weekly, pnl) == [daily_pnl |-> daily + pnl, weekly_pnl |-> weekly + pnl]

\* the states in which can_trade refuses: a loss of 4% booked by update_pnl,
\* a weekly loss of 6% after reset_daily_pnl, three positions added by
\* add_position
RiskLimitStates ==
    {[daily_pnl |-> UpdatePnl(0, 0, -40).daily_pnl,
      weekly_pnl |-> UpdatePnl(0, 0, -40).weekly_pnl,
      open_positions |-> 0],
     [daily_pnl |-> 0,
      weekly_pnl |-> UpdatePnl(0, 0, -60).weekly_pnl,
      open_positions |-> 0],
     [daily_pnl |-> 0, weekly_pnl |-> 0, open_positions |-> MAX_CONCURRENT_TRADES]}

NextRisk ==
    \E stop_price \in SizingStops : CalculatePositionSize(SizingEntry, stop_price)

SpecRisk == Init /\ [][NextRisk]_vars

\* the strategy is constructed while the limits of the RiskManager are
\* reached
InitRiskLimited ==
    /\ ExitsIdle /\ TrendIdle /\ SignalIdle /\ MainIdle
    /\ OrderbookIdle /\ EntryIdle /\ LoopsIdle /\ DetailsIdle /\ TasksIdle
    /\ BreakevenIdle /\ CallsIdle
    /\ sizing = NoSizing
    /\ position_size = [kind |-> "unset", value |-> 0]
    /\ \E limits \in RiskLimitStates :
          /\ daily_pnl = limits.daily_pnl
          /\ weekly_pnl = limits.weekly_pnl
          /\ open_positions = limits.open_positions

SpecRiskLimited == InitRiskLimited /\ [][NextMain]_vars

\* ------------------------------------------- TrendMomentumXStrategy.enter_trade
outside_entry == <<exit_vars, trend_vars, signal_vars, main_vars, orderbook_vars,
                   risk_vars, loop_vars, details_vars, task_vars,
                   breakeven_vars, call_vars>>

\* entry_price - distance for a long, entry_price + distance for a short
StopAt(entry_price, direction, distance) ==
    IF direction = "long" THEN entry_price - distance ELSE entry_price + distance

\* _calculate_stop_price, lines 98-124, on the data get_data returned
CalculateStopPrice(entry_price, direction, data_1m, instrument) ==
    IF data_1m.kind = "none" THEN entry_price
    ELSE IF data_1m.len # 0 /\ data_1m.len >= ATR_PERIOD
    THEN StopAt(entry_price, direction, data_1m.atr)
    ELSE IF instrument.kind = "instrument"
    THEN StopAt(entry_price, direction, STOP_TICKS * instrument.tickSize)
    ELSE StopAt(entry_price, direction, entry_price \div PercentStop)

\* enter_trade is called by check_long_entry / check_short_entry and awaits
\* the current price (lines 413-419); instrument is what suite.instrument
\* holds during the call
CallEnterTrade(direction) ==
    /\ UNCHANGED outside_entry
    /\ entry.pc \in {"idle", "done"}
    /\ \E instrument \in EntryInstruments :
          entry' = [NoEntry EXCEPT !.pc = "price", !.direction = direction,
                                   !.instrument = instrument]
    /\ UNCHANGED entry_order

\* enter_trade, lines 419-425: the current price has come
EnterTrade_Price ==
    /\ UNCHANGED outside_entry
    /\ entry.pc = "price"
    /\ \E current_price \in CurrentPriceResults :
          entry' = IF current_price.kind = "value"
                   THEN [entry EXCEPT !.pc = "stop",
                                      !.current_price = current_price.value]
                   ELSE [entry EXCEPT !.pc = "done"]
    /\ UNCHANGED entry_order

\* enter_trade, lines 425-435: get_data("1min") has returned inside
\* _calculate_stop_price, the stop and the target are computed
EnterTrade_Stop ==
    /\ UNCHANGED outside_entry
    /\ entry.pc = "stop"
    /\ \E data_1m \in Data1mStopResults :
          LET stop_price == CalculateStopPrice(entry.current_price, entry.direction,
                                               data_1m, entry.instrument)
          IN  entry' =
                    IF data_1m.kind = "raised"
                    THEN [entry EXCEPT !.pc = "done", !.data_1m = data_1m]
                    ELSE [entry EXCEPT
                            !.pc = "submit",
                            !.data_1m = data_1m,
                            !.stop_price = stop_price,
                            !.target_price =
                                CalculateTargetPrice(entry.current_price, stop_price,
                                                     entry.direction)]
    /\ UNCHANGED entry_order

\* enter_trade, lines 435-461: enter_long / enter_short is called with the
\* stop and the target, unless managed_trade() raises before
EnterTrade_Submit ==
    /\ UNCHANGED outside_entry
    /\ entry.pc = "submit"
    /\ \E entered \in BOOLEAN :
          entry_order' =
              IF entered
              THEN [direction |-> entry.direction,
                    entry_price |-> entry.current_price,
                    stop_loss |-> entry.stop_price,
                    take_profit |-> entry.target_price]
              ELSE entry_order
    /\ entry' = [entry EXCEPT !.pc = "done"]

NextEntry ==
    \/ \E direction \in {"long", "short"} : CallEnterTrade(direction)
    \/ EnterTrade_Price
    \/ EnterTrade_Stop
    \/ EnterTrade_Submit

SpecEntry == Init /\ [][NextEntry]_vars

\* ---------------------------------- ExitManager, concurrent manage_position
outside_loops == <<pending, pc, exit_signal, obs, close_attempts, breakeven_attempts,
                   trend_vars, signal_vars, main_vars, orderbook_vars, risk_vars,
                   entry_vars, details_vars, task_vars,
                   breakeven_vars, call_vars>>

\* every record is dropped
WithoutPosition_Clear(positions, position_id) == << >>

\* _exit_position, line 244: del self.active_positions[position_id]
WithoutPosition(positions, position_id) ==
    [q \in DOMAIN positions \ {position_id} |-> positions[q]]

\* manage_position, lines 24-43: the record is written under the id,
\* whatever the active set holds, and the loop is entered
Loop_ManagePosition(l, position) ==
    /\ UNCHANGED outside_loops
    /\ loops[l].pc = "idle"
    /\ active_positions' =
          (position.id :> [entry_time |-> now,
                           entry_price |-> position.entry_price,
                           stop_price |-> position.stop_price,
                           target_price |-> position.target_price,
                           direction |-> position.direction,
                           size |-> position.size,
                           trailing_stop_activated |-> FALSE,
                           breakeven_activated |-> FALSE]) @@ active_positions
    /\ loops' = [loops EXCEPT ![l] = [pc |-> "check", id |-> position.id]]
    /\ owner' = IF position.id \in DOMAIN active_positions THEN owner
                ELSE [owner EXCEPT ![position.id] = l]
    /\ UNCHANGED now

\* manage_position lines 43-46: the loop test and _check_exit_conditions
Loop_CheckExit(l) ==
    LET position_id == loops[l].id IN
    /\ UNCHANGED outside_loops
    /\ loops[l].pc = "check"
    /\ UNCHANGED <<active_positions, now, owner>>
    /\ IF position_id \notin DOMAIN active_positions
       THEN loops' = [loops EXCEPT ![l].pc = "done"]
       ELSE \E price \in LoopPriceResults, data_5m \in Data5mResults :
            LET position == active_positions[position_id]
                fetch == Truthy(price) /\ NeedsData5m(position, price.value, now)
            IN  /\ ~fetch => data_5m.kind = "none"
                /\ loops' = [loops EXCEPT ![l].pc =
                      IF price.kind = "raised" \/ (fetch /\ data_5m.kind = "raised")
                      THEN "crashed"
                      ELSE IF ~Truthy(price) THEN "activate"
                      ELSE IF CheckExitConditions(position, price.value, now,
                                                  data_5m).should_exit
                      THEN "exit" ELSE "activate"]

\* manage_position lines 46-49 with _exit_position (240-246): the del raises
\* KeyError, caught at line 245, when the id is no longer in the dict
Loop_ExitPosition(l) ==
    LET position_id == loops[l].id IN
    /\ UNCHANGED outside_loops
    /\ loops[l].pc = "exit"
    /\ \E close_ok \in BOOLEAN :
          active_positions' =
              IF close_ok /\ position_id \in DOMAIN active_positions
              THEN WithoutPosition(active_positions, position_id)
              ELSE active_positions
    /\ loops' = [loops EXCEPT ![l].pc = "done"]
    /\ UNCHANGED <<now, owner>>

\* manage_position lines 51-55 with _check_trailing_activation and
\* _move_stop_to_breakeven; line 53 raises KeyError when the id has gone
Loop_CheckTrailingActivation(l) ==
    LET position_id == loops[l].id IN
    /\ UNCHANGED outside_loops
    /\ loops[l].pc = "activate"
    /\ UNCHANGED <<now, owner>>
    /\ IF position_id \notin DOMAIN active_positions
       THEN /\ loops' = [loops EXCEPT ![l].pc = "crashed"]
            /\ UNCHANGED active_positions
       ELSE IF ~(trailing_enabled
                 /\ ~active_positions[position_id].trailing_stop_activated)
       THEN /\ loops' = [loops EXCEPT ![l].pc = "trail"]
            /\ UNCHANGED active_positions
       ELSE \E price \in LoopPriceResults, instrument \in Instruments,
               modify_ok \in BOOLEAN, cancel_ok \in BOOLEAN, place_ok \in BOOLEAN :
            LET position == active_positions[position_id]
                triggered == Truthy(price) /\ BreakevenTriggered(position, price.value)
                attempt == triggered /\ ~position.breakeven_activated
                moved == IF attempt
                         THEN MoveStopToBreakeven(position, instrument,
                                                  modify_ok, cancel_ok, place_ok)
                         ELSE position
                after == IF triggered
                         THEN [moved EXCEPT !.trailing_stop_activated = TRUE]
                         ELSE moved
            IN  IF price.kind = "raised"
                THEN /\ loops' = [loops EXCEPT ![l].pc = "crashed"]
                     /\ UNCHANGED active_positions
                ELSE /\ loops' = [loops EXCEPT ![l].pc = "trail"]
                     /\ active_positions' =
                           [active_positions EXCEPT ![position_id] = after]

\* manage_position lines 57-58 with _update_trailing_stop; line 57 raises
\* KeyError when the id has gone
Loop_UpdateTrailingStop(l) ==
    LET position_id == loops[l].id IN
    /\ UNCHANGED outside_loops
    /\ loops[l].pc = "trail"
    /\ UNCHANGED <<now, owner>>
    /\ IF position_id \notin DOMAIN active_positions
       THEN /\ loops' = [loops EXCEPT ![l].pc = "crashed"]
            /\ UNCHANGED active_positions
       ELSE IF ~active_positions[position_id].trailing_stop_activated
       THEN /\ loops' = [loops EXCEPT ![l].pc = "sleep"]
            /\ UNCHANGED active_positions
       ELSE \E data_15s \in LoopData15sResults, price \in LoopPriceResults,
               modify_ok \in BOOLEAN :
            LET position == active_positions[position_id]
                usable == data_15s.kind = "frame" /\ data_15s.len >= MinBars15s
                adopt == /\ usable
                         /\ Truthy(price)
                         /\ TrailingAdopts(position, data_15s.sar, price.value)
            IN  /\ ~usable => price.kind = "none"
                /\ ~adopt => modify_ok
                /\ IF data_15s.kind = "raised" \/ (usable /\ price.kind = "raised")
                   THEN /\ loops' = [loops EXCEPT ![l].pc = "crashed"]
                        /\ UNCHANGED active_positions
                   ELSE /\ loops' = [loops EXCEPT ![l].pc = "sleep"]
                        /\ active_positions' =
                              IF adopt /\ modify_ok
                              THEN [active_positions EXCEPT
                                      ![position_id].stop_price = data_15s.sar]
                              ELSE active_positions

\* manage_position line 60: asyncio.sleep(1); the clock may move on meanwhile
Loop_Sleep(l) ==
    /\ UNCHANGED outside_loops
    /\ loops[l].pc = "sleep"
    /\ loops' = [loops EXCEPT ![l].pc = "check"]
    /\ \E d \in {0, 1} : now' = IF now + d <= MaxLoopClock THEN now + d ELSE now
    /\ UNCHANGED <<active_positions, owner>>

NextLoops ==
    \/ \E l \in Loops, position \in LoopPositionInputs : Loop_ManagePosition(l, position)
    \/ \E l \in Loops : Loop_CheckExit(l)
    \/ \E l \in Loops : Loop_ExitPosition(l)
    \/ \E l \in Loops : Loop_CheckTrailingActivation(l)
    \/ \E l \in Loops : Loop_UpdateTrailingStop(l)
    \/ \E l \in Loops : Loop_Sleep(l)

SpecLoops == Init /\ [][NextLoops]_vars

\* ------------------------------------------------------------ properties
Managed == DOMAIN active_positions

\* the tick of p has run _check_exit_conditions and nothing after it yet
Checked(p) == p \in Managed /\ pc[p] \in {"exit", "activate"}

TargetApplies(position, price) ==
    IF position.direction = "long" THEN price >= position.target_price
    ELSE price <= position.target_price

StopApplies(position, price) ==
    IF position.direction = "long" THEN price <= position.stop_price
    ELSE price >= position.stop_price

\* C1: on a tick with a current price, a long exits with 'Target reached' when
\* price >= target, otherwise with 'Stop loss hit' when price <= stop (a short
\* mirrored), and neither reason is given while the price is strictly between
\* stop and target.
C1_TargetStopExit ==
    \A p \in PositionIds :
        (Checked(p) /\ Truthy(obs[p].check_price)) =>
            LET position == active_positions[p]
                price == obs[p].check_price.value
                sig == exit_signal[p]
            IN  /\ TargetApplies(position, price) =>
                       (sig.should_exit /\ sig.reason = "Target reached")
                /\ (~TargetApplies(position, price) /\ StopApplies(position, price)) =>
                       (sig.should_exit /\ sig.reason = "Stop loss hit")
                /\ (~TargetApplies(position, price) /\ ~StopApplies(position, price)) =>
                       sig.reason \notin {"Target reached", "Stop loss hit"}

\* a long is stopped out at a price equal to its stop
C1_Witness ==
    \E p \in PositionIds :
        /\ Checked(p)
        /\ Truthy(obs[p].check_price)
        /\ active_positions[p].direction = "long"
        /\ obs[p].check_price.value = active_positions[p].stop_price
        /\ exit_signal[p].reason = "Stop loss hit"

\* C2: after _exit_position has returned, the id is no longer in
\* active_positions, whether close_position succeeded or failed.
C2_RemovedAfterExit ==
    \A p \in PositionIds :
        (pc[p] = "done" /\ close_attempts[p] > 0) => p \notin Managed

\* C3: once an exit has been signalled the loop makes exactly one close
\* attempt and is over: a failed close is logged, not retried, and no further
\* tick runs for the position.
C3_OneCloseAttempt ==
    \A p \in PositionIds :
        /\ close_attempts[p] <= 1
        /\ close_attempts[p] = 1 => (exit_signal[p].should_exit /\ pc[p] = "done")
        /\ exit_signal[p].should_exit =>
              /\ pc[p] \in {"exit", "done"}
              /\ pc[p] = "exit" => close_attempts[p] = 0
              /\ pc[p] = "done" =>
                    /\ close_attempts[p] = 1
                    /\ p \in Managed => obs[p].log = "close_failed"

\* the close failed and the loop is over all the same
C3_Witness ==
    \E p \in PositionIds :
        /\ pc[p] = "done"
        /\ close_attempts[p] = 1
        /\ obs[p].log = "close_failed"

\* C4: the stop never loosens (long: never decreases, short: never
\* increases), and a trailing candidate is adopted only when it lies strictly
\* between the current stop and the current price.
C4_StopNeverLoosens ==
    [][\A p \in PositionIds :
          (p \in Managed /\ p \in DOMAIN active_positions') =>
              LET old == active_positions[p]
                  new == active_positions'[p]
                  o == obs'[p]
              IN  /\ old.direction = "long" => new.stop_price >= old.stop_price
                  /\ old.direction = "short" => new.stop_price <= old.stop_price
                  /\ (pc[p] = "trail" /\ new.stop_price # old.stop_price) =>
                        /\ o.trail_data.kind = "frame"
                        /\ Truthy(o.trail_price)
                        /\ new.stop_price = o.trail_data.sar
                        /\ IF old.direction = "long"
                           THEN /\ old.stop_price < o.trail_data.sar
                                /\ o.trail_data.sar < o.trail_price.value
                           ELSE /\ o.trail_price.value < o.trail_data.sar
                                /\ o.trail_data.sar < old.stop_price
      ]_vars

\* a short whose stop was already at breakeven has it trailed further down
C4_Witness ==
    \E p \in PositionIds :
        /\ p \in Managed
        /\ pc[p] = "sleep"
        /\ obs[p].trail_modify = "modified"
        /\ active_positions[p].direction = "short"
        /\ active_positions[p].breakeven_activated
        /\ active_positions[p].stop_price = obs[p].trail_data.sar

\* the price at which breakeven triggers and the stop it moves to
TriggerPrice(position) ==
    IF position.direction = "long"
    THEN position.entry_price
            + BREAKEVEN_TRIGGER_RATIO * (position.entry_price - position.stop_price)
    ELSE position.entry_price
            - BREAKEVEN_TRIGGER_RATIO * (position.stop_price - position.entry_price)

TriggerReached(position, price) ==
    IF position.direction = "long" THEN price >= TriggerPrice(position)
    ELSE price <= TriggerPrice(position)

BreakevenPrice(position) ==
    IF position.direction = "long"
    THEN position.entry_price + BREAKEVEN_OFFSET_TICKS * TickSize
    ELSE position.entry_price - BREAKEVEN_OFFSET_TICKS * TickSize

\* the activation step of a tick of p: _check_trailing_activation has run
ActivationStep(p) ==
    /\ p \in Managed
    /\ p \in DOMAIN active_positions'
    /\ pc[p] = "activate"
    /\ pc'[p] = "trail"

BrokerConfirmed(o) == o.be_modify = "ok" \/ (o.be_modify = "raised" /\ o.be_place = "ok")

C6_UpdateOnlyOnSuccess ==
    [][\A p \in PositionIds :
          ActivationStep(p) =>
              LET old == active_positions[p]
                  new == active_positions'[p]
                  o == obs'[p]
              IN  /\ BrokerConfirmed(o) =>
                        /\ new.stop_price = BreakevenPrice(old)
                        /\ new.breakeven_activated
                  /\ ~BrokerConfirmed(o) =>
                        /\ new.stop_price = old.stop_price
                        /\ new.breakeven_activated = old.breakeven_activated
                  /\ (o.be_modify = "raised" /\ o.be_place # "ok") =>
                        /\ o.be_cancel = "raised" \/ o.be_place = "raised"
                        /\ o.log = "breakeven_failed"
                        /\ pc'[p] = "trail"
                  /\ o.be_cancel # "none" => o.be_modify = "raised"
                  /\ o.be_place # "none" => o.be_cancel = "ok"
      ]_vars

\* modify_order raised, place_stop_order raised too, and the loop goes on
\* with the stop where it was
C6_Witness ==
    \E p \in PositionIds :
        /\ p \in Managed
        /\ pc[p] = "trail"
        /\ obs[p].be_modify = "raised"
        /\ obs[p].be_cancel = "ok"
        /\ obs[p].be_place = "raised"
        /\ ~active_positions[p].breakeven_activated
        /\ active_positions[p].stop_price # BreakevenPrice(active_positions[p])

\* C7: in every reachable state of a managed position,
\* trailing_stop_activated implies breakeven_activated.
C7_TrailingImpliesBreakeven ==
    \A p \in Managed :
        active_positions[p].trailing_stop_activated =>
            active_positions[p].breakeven_activated

NoProgress(position, price) ==
    IF position.direction = "long" THEN price <= position.entry_price
    ELSE price >= position.entry_price

\* C8: the exit reason is 'Time exit - no progress' exactly when a price is
\* available, no target or stop exit applies, more than time_exit_minutes have
\* passed since entry and the price is not on the profit side of entry.
C8_TimeExit ==
    \A p \in PositionIds :
        Checked(p) =>
            LET position == active_positions[p]
                price == obs[p].check_price.value
            IN  (exit_signal[p].should_exit
                    /\ exit_signal[p].reason = "Time exit - no progress")
                <=> ( /\ Truthy(obs[p].check_price)
                      /\ ~TargetApplies(position, price)
                      /\ ~StopApplies(position, price)
                      /\ now - position.entry_time > TIME_EXIT_MINUTES
                      /\ NoProgress(position, price) )

\* a short is timed out at its entry price
C8_Witness ==
    \E p \in PositionIds :
        /\ Checked(p)
        /\ exit_signal[p].reason = "Time exit - no progress"
        /\ active_positions[p].direction = "short"
        /\ obs[p].check_price.value = active_positions[p].entry_price

ReversalApplies(position, data_5m) ==
    /\ data_5m.kind = "frame"
    /\ data_5m.len >= MinBars5m
    /\ \/ position.direction = "long" /\ data_5m.hist < -1
       \/ position.direction = "short" /\ data_5m.hist > 1

ExpectedReason(position, price, data_5m) ==
    IF TargetApplies(position, price) THEN "Target reached"
    ELSE IF StopApplies(position, price) THEN "Stop loss hit"
    ELSE IF now - position.entry_time > TIME_EXIT_MINUTES /\ NoProgress(position, price)
    THEN "Time exit - no progress"
    ELSE IF ReversalApplies(position, data_5m) THEN "Trend reversal detected"
    ELSE ""

C9_Reason ==
    \A p \in PositionIds :
        /\ (Checked(p) /\ Truthy(obs[p].check_price)) =>
              LET reason == ExpectedReason(active_positions[p],
                                obs[p].check_price.value, obs[p].check_data)
              IN  /\ exit_signal[p].reason = reason
                  /\ exit_signal[p].should_exit <=> reason # ""
        /\ exit_signal[p].should_exit => pc[p] \in {"exit", "done"}

C9_ExitStep ==
    \A p \in PositionIds :
        (pc[p] = "exit" /\ pc'[p] # "exit") =>
            /\ pc'[p] = "done"
            /\ breakeven_attempts'[p] = breakeven_attempts[p]
            /\ obs'[p].be_modify = "none"
            /\ obs'[p].trail_modify = "none"
            /\ p \in DOMAIN active_positions' => active_positions'[p] = active_positions[p]

C10_FetchFailureSkips ==
    [][\A p \in PositionIds :
          /\ pc'[p] # "crashed"
          /\ (pc[p] = "check" /\ pc'[p] # "check" /\ p \in Managed
                  /\ obs'[p].check_price.kind \in {"none", "raised"}) =>
                /\ ~exit_signal'[p].should_exit
                /\ active_positions' = active_positions
                /\ pc'[p] = "activate"
          /\ (pc[p] = "activate" /\ pc'[p] # "activate"
                  /\ obs'[p].act_price.kind \in {"none", "raised"}) =>
                /\ active_positions' = active_positions
                /\ pc'[p] = "trail"
          /\ (pc[p] = "trail" /\ pc'[p] # "trail"
                  /\ obs'[p].trail_price.kind \in {"none", "raised"}) =>
                /\ active_positions' = active_positions
                /\ pc'[p] = "sleep"
      ]_vars

\* ------------------------------------------------- TrendAnalyzer claims
Returned == trend_pc = "done"

C16_NoModeWithNeutral ==
    Returned /\ trade_mode # "no_trade" =>
        /\ trends.m15 # "neutral"
        /\ trends.m5 # "neutral"
        /\ trends.m1 # "neutral"

Insufficient(data, min_bars) ==
    \/ data.kind = "none"
    \/ data.kind = "frame" /\ data.len < min_bars

\* C20: a timeframe whose data is absent, empty or shorter than its minimum
\* bar count has the trend neutral and raises nothing, and the mode is
\* no_trade whenever the 15min data is insufficient.
C20_InsufficientIsNeutral ==
    /\ Insufficient(trend_data.m15, EMA_SLOW) =>
          /\ trends.m15 = "neutral"
          /\ Returned => trade_mode = "no_trade"
    /\ Insufficient(trend_data.m5, MACD_SLOW + MACD_SIGNAL) => trends.m5 = "neutral"
    /\ Insufficient(trend_data.m1, MinBars1m) => trends.m1 = "neutral"

\* ----------------------------------------------- SignalGenerator claims
EntryChecked == sig_pc = "done"

\* C17: whenever the pattern factor is false, the entry check returns
\* accepted = false and score = 0, whatever the other factors are.
C17_PatternMandatory ==
    EntryChecked /\ signals.has_score /\ ~signals.pattern_edge =>
        ~all_signals /\ signals.score = 0

\* C18: with sufficient data the entry check accepts iff the pattern factor
\* is true and at least one of the WAE factor and the price-break factor
\* is true.
C18_PatternPlusOne ==
    EntryChecked /\ signals.has_score =>
        (all_signals <=>
            signals.pattern_edge /\ (signals.wae_explosion \/ signals.price_break))

\* C19: when the 15sec data is absent or has fewer than 100 bars, the entry
\* check returns accepted = false with all four factor flags false, raises
\* nothing and does not evaluate the pattern check.
C19_InsufficientData ==
    sig_data.kind = "none" \/ (sig_data.kind = "frame" /\ sig_data.len < MinBarsSignal) =>
        /\ EntryChecked
        /\ ~all_signals
        /\ ~signals.rsi_cross /\ ~signals.wae_explosion
        /\ ~signals.price_break /\ ~signals.pattern_edge
        /\ ~pattern_checked

C19_Witness ==
    /\ EntryChecked
    /\ sig_data = [kind |-> "frame", len |-> MinBarsSignal - 1]
    /\ sig_dir = "short"

\* ---------------------------------------- TrendMomentumXStrategy claims
ShutdownEnded == sd_pc \in {"done", "raised"}

\* C11: when shutdown runs on a running strategy, every position of the
\* active set is sent a close_position instruction before the suite is
\* disconnected, also when closing fails and when monitoring loops remove
\* positions from the active set meanwhile.
C11_ShutdownClosesAll ==
    ShutdownEnded => \A p \in Managed : p \in sd_sent

EntryFilled == \E o \in Tasks : broker[o] = "filled"

\* C12: every entry whose order is submitted and filled leads to a position
\* record handed to ExitManager: a position eventually appears in the
\* active set.
C12_FilledIsManaged == EntryFilled ~> (Managed # {})

InFlight(t) == cycle[t].pc = "inflight"

\* C13: two overlapping decision cycles never both have an entry submission
\* for the same direction in flight.
C13_NoDuplicateEntries ==
    \A t1 \in Tasks, t2 \in Tasks :
        t1 # t2 /\ InFlight(t1) /\ InFlight(t2) =>
            cycle[t1].direction # cycle[t2].direction

GateOrder == <<"volume", "mode", "signal", "orderbook", "submit">>
IsPrefix(a, b) == Len(a) <= Len(b) /\ \A i \in 1..Len(a) : a[i] = b[i]
ModeFor(direction) == IF direction = "long" THEN "long_only" ELSE "short_only"

\* C14: within one decision cycle enter_trade(d) is invoked only after, in
\* this order, the volume filter passed, get_trade_mode returned the mode
\* matching d, the signal check returned valid and the order-book
\* confirmation returned confirmed; a negative result of any step ends the
\* cycle with no later step and no order submitted.
C14_SequentialGating ==
    \A t \in Tasks :
        LET c == cycle[t] IN
        /\ IsPrefix(c.steps, GateOrder)
        /\ c.direction # "none" =>
              /\ c.volume_ok = "pass"
              /\ c.trade_mode = ModeFor(c.direction)
              /\ c.signal_valid = "yes"
              /\ c.orderbook_confirmed = "yes"
              /\ IsPrefix(<<"volume", "mode", "signal", "orderbook">>, c.steps)
        /\ c.volume_ok # "pass" => c.trade_mode = "none"
        /\ c.trade_mode \notin {"long_only", "short_only"} => c.signal_valid = "none"
        /\ c.signal_valid # "yes" => c.orderbook_confirmed = "none"
        /\ c.orderbook_confirmed # "yes" => c.direction = "none"
        /\ c.direction = "none" =>
              broker[t] = "none" /\ t \notin DOMAIN pending_orders

C14_Witness ==
    \E t \in Tasks :
        /\ cycle[t].direction = "short"
        /\ broker[t] = "working"
        /\ \E u \in Tasks : cycle[u].pc = "done" /\ cycle[u].signal_valid = "no"

\* the running confirmation has returned
Confirmed_Returned == ob_pc = "done"

\* C21: a confirmation whose depth imbalance was unavailable (no order book,
\* a failed call, an empty result or a result without depth_imbalance)
\* returns False, with confirmed False and a non-empty reason, and never
\* runs the iceberg detection; the call has no raising outcome
C21_FailsClosed ==
    /\ ob_pc \in {"unbuilt", "idle", "imbalance", "icebergs", "done"}
    /\ (ob_pc \in {"icebergs", "done"} /\ ob_seen.kind # "value") =>
          /\ ob_pc = "done"
          /\ ob_returned = "false"
          /\ ~confirmation.confirmed
          /\ confirmation.reason # ""
          /\ ~icebergs_detected
C21_Witness ==
    /\ Confirmed_Returned
    /\ ob_seen.kind = "raised"
    /\ iceberg_check_enabled
    /\ ob_dir = "short"

\* C22: a long confirmation returns True exactly when the imbalance is
\* available and at least the long threshold and the iceberg check is
\* disabled or found no iceberg on the ask side; a short confirmation
\* exactly when the imbalance is at most the short threshold and the check
\* is disabled or found no iceberg on the bid side
C22_ConfirmsExactly ==
    Confirmed_Returned =>
        LET against == IF ob_dir = "long" THEN "ask" ELSE "bid"
            available == ob_seen.kind = "value"
            enough == IF ob_dir = "long"
                      THEN ob_seen.depth_imbalance >= IMBALANCE_LONG_THRESHOLD
                      ELSE ob_seen.depth_imbalance <= IMBALANCE_SHORT_THRESHOLD
            clear == \/ ~iceberg_check_enabled
                     \/ \A i \in DOMAIN confirmation.icebergs :
                            confirmation.icebergs[i] # against
        IN  /\ (ob_returned = "true") <=> (available /\ enough /\ clear)
            /\ (ob_returned = "true") <=> confirmation.confirmed
C22_Witness ==
    /\ Confirmed_Returned
    /\ ob_dir = "long"
    /\ iceberg_check_enabled
    /\ ob_returned = "true"
    /\ confirmation.icebergs = <<"bid">>

\* calculate_position_size has returned a size
Sized == position_size.kind = "size"
\* the quantities of the last sizing call
RiskAmount == RISK_PER_TRADE * sizing.account_info.balance
RiskPerContractTimesTick ==
    Abs(sizing.entry_price - sizing.stop_price) * sizing.instrument.tickValue
\* n contracts are within the risk amount: n * risk_per_contract <= risk_amount
Affordable(n) == n * RiskPerContractTimesTick <= RiskAmount * sizing.instrument.tickSize

\* C23: a returned size is the largest whole number of contracts whose risk
\* is within risk_per_trade * balance, clamped to 1..max_position_size, and
\* the call with balance 100000, tick value 12.50, tick size 0.25, entry 5000
\* and stop 4995 returns 2
C23_Example ==
    /\ sizing.account_info = [kind |-> "account", balance |-> 100000]
    /\ sizing.instrument = [kind |-> "instrument", tickValue |-> 12500, tickSize |-> 25]
    /\ sizing.entry_price = 500000
    /\ sizing.stop_price = 499500
C23_ClampedFloor ==
    /\ Sized =>
          LET n == position_size.value
          IN  /\ n \in 1..MAX_POSITION_SIZE
              /\ (n > 1) => Affordable(n)
              /\ (n < MAX_POSITION_SIZE) => ~Affordable(n + 1)
    /\ C23_Example => position_size = [kind |-> "size", value |-> 2]
C23_Witness == C23_Example /\ Sized

\* the cases in which no size may be returned
Unsizeable ==
    \/ sizing.account_info.kind # "account"
    \/ sizing.account_info.balance <= 0
    \/ sizing.instrument.kind # "instrument"
    \/ sizing.instrument.tickValue = 0
    \/ sizing.instrument.tickSize = 0
    \/ RiskPerContractTimesTick <= 0

\* C24: calculate_position_size returns None when the account information
\* is missing, the balance is not positive, the tick value or the tick size
\* is missing or zero, or the entry equals the stop
C24_NoSizeWithoutInputs ==
    (position_size.kind # "unset" /\ Unsizeable) => position_size = NoSize
C24_Witness ==
    /\ position_size = NoSize
    /\ sizing.account_info.kind = "account"
    /\ sizing.account_info.balance > 0
    /\ sizing.instrument.kind = "instrument"
    /\ sizing.instrument.tickValue > 0
    /\ sizing.instrument.tickSize > 0
    /\ sizing.entry_price = sizing.stop_price

\* enter_trade has computed its stop
StopComputed == entry.pc = "submit"

\* C25: the stop of an entry is entry -/+ ATR when at least atr_period 1min
\* bars exist; otherwise, the 1min data being absent or too short, it is
\* entry -/+ stop_ticks * tick_size when the tick size is known, and else
\* entry -/+ 1% of the entry price
C25_FallbackChain ==
    StopComputed =>
        LET enough == entry.data_1m.kind = "frame" /\ entry.data_1m.len >= ATR_PERIOD
            known == entry.instrument.kind = "instrument"
            distance == IF enough THEN entry.data_1m.atr
                        ELSE IF known THEN STOP_TICKS * entry.instrument.tickSize
                        ELSE entry.current_price \div PercentStop
        IN  entry.stop_price =
                IF entry.direction = "long" THEN entry.current_price - distance
                ELSE entry.current_price + distance

\* an order was handed to enter_long / enter_short
Submitted == entry_order # NoOrder

\* C26: every submitted order has its target at |entry - stop| * RR_RATIO
\* from the entry, the stop strictly on the loss side and the target
\* strictly on the profit side of the entry price
C26_StopAndTargetSides ==
    Submitted =>
        /\ Abs(entry_order.take_profit - entry_order.entry_price) =
               Abs(entry_order.entry_price - entry_order.stop_loss) * RR_RATIO
        /\ IF entry_order.direction = "long"
           THEN /\ entry_order.stop_loss < entry_order.entry_price
                /\ entry_order.entry_price < entry_order.take_profit
           ELSE /\ entry_order.take_profit < entry_order.entry_price
                /\ entry_order.entry_price < entry_order.stop_loss

\* the decision cycle of task t has asked get_trade_mode
QueriedTradeMode(t) == \E i \in DOMAIN cycle[t].steps : cycle[t].steps[i] = "mode"
\* the decision cycle of task t has called enter_trade
EnteredTrade(t) ==
    \/ cycle[t].pc \in {"price", "stop", "submit", "inflight"}
    \/ broker[t] # "none"

\* C27: while can_trade refuses (daily or weekly loss limit reached, or the
\* maximum number of concurrent trades open) no decision cycle queries the
\* trade mode and none enters a trade
C27_RiskLimitsBlock ==
    ~CanTrade(daily_pnl, weekly_pnl, open_positions) =>
        \A t \in Tasks : ~QueriedTradeMode(t) /\ ~EnteredTrade(t)

\* the manage_position call l is inside its monitoring loop
Live(l) == loops[l].pc \in {"check", "exit", "activate", "trail", "sleep"}
\* the step is the call of manage_position by l
Called(l) == loops[l].pc = "idle" /\ loops'[l].pc = "check"
\* the step is a monitoring tick of l
Ticked(l) == loops[l].pc # "idle" /\ loops'[l] # loops[l]
\* the step removes id i from the active set
Removed(i) == i \in DOMAIN active_positions /\ i \notin DOMAIN active_positions'

\* C28: no two monitoring loops run on one position id; a manage_position
\* call with an id that is already in the active set leaves the record of
\* that id as it is; an id is removed from the active set only by the loop
\* that put it there
C28_OneLoopPerId ==
    [][ /\ \A l \in Loops, m \in Loops :
              (l # m /\ Live(l)' /\ Live(m)') => loops'[l].id # loops'[m].id
        /\ \A l \in Loops :
              (Called(l) /\ loops'[l].id \in DOMAIN active_positions) =>
                  active_positions'[loops'[l].id] = active_positions[loops'[l].id]
        /\ \A l \in Loops :
              (Ticked(l) /\ Removed(loops[l].id)) => owner[loops[l].id] = l
      ]_vars

\* C29: a monitoring tick of one loop leaves the record of every position
\* with another id in the active set, unchanged
C29_LoopsIndependent ==
    [][ \A l \in Loops : Ticked(l) =>
            \A q \in DOMAIN active_positions :
                q # loops[l].id =>
                    /\ q \in DOMAIN active_positions'
                    /\ active_positions'[q] = active_positions[q]
      ]_vars
\* two loops on two ids, one of which has moved its stop to breakeven and
\* then trailed it, beside the untouched record of the other
C29_Witness ==
    /\ Live("L1") /\ Live("L2")
    /\ loops["L1"].id = "POS1" /\ loops["L2"].id = "POS2"
    /\ {"POS1", "POS2"} \subseteq DOMAIN active_positions
    /\ active_positions["POS1"].breakeven_activated
    /\ active_positions["POS1"].trailing_stop_activated
    /\ ~active_positions["POS2"].trailing_stop_activated
    /\ active_positions["POS2"].stop_price \in {EntryPrice - 1, EntryPrice + 1}

\* the k-th get_trend_details call has ended
DetailsEnded(k) == details_pc.call > k \/ (details_pc.call = k /\ details_pc.step = 0)

CycleStarted(t) == cycle[t].pc = "idle" /\ cycle'[t].pc # "idle"

\* C31: on_new_bar starts a decision cycle only for a 15sec bar and only
\* while the strategy is running, and then it starts exactly one; a 1min
\* bar with data updates the volume average and starts nothing, a bar of
\* another timeframe neither starts a cycle nor touches the average, and
\* while the strategy is not running a bar changes nothing but the
\* latest-bar cache. No other step starts a cycle.
C31_BarsStartCycles ==
    [][/\ \A timeframe \in BarTimeframes, bar \in Bars :
             OnNewBar(timeframe, bar) =>
                /\ (\E t \in Tasks : CycleStarted(t))
                       => running /\ timeframe = "15sec"
                /\ running /\ timeframe = "15sec"
                       => /\ \E t \in Tasks :
                                /\ CycleStarted(t)
                                /\ \A u \in Tasks \ {t} : cycle'[u] = cycle[u]
                          /\ volume_avg_1min' = volume_avg_1min
                /\ volume_avg_1min' # volume_avg_1min
                       => running /\ timeframe = "1min" /\ ~bar.empty
                /\ running /\ timeframe = "1min" /\ ~bar.empty
                       => volume_avg_1min' =
                              UpdateVolumeAverage(volume_avg_1min, bar.volume)
                /\ ~running => UNCHANGED <<volume_avg_1min, cycle>>
                /\ latest_bars' \in {latest_bars, latest_bars \cup {timeframe}}
                /\ UNCHANGED <<running, pending_orders, broker>>
       /\ \A t \in Tasks :
             CycleStarted(t) =>
                /\ running
                /\ cycle'[t].pc = "volume"
                /\ \E bar \in Bars : OnNewBar("15sec", bar)
      ]_vars

\* running, with bars of all three timeframes cached, the volume average
\* set by a 1min bar and a cycle just started by a 15sec bar
C31_Witness ==
    /\ running
    /\ latest_bars = BarTimeframes
    /\ volume_avg_1min > 0
    /\ \E t \in Tasks : cycle[t].pc = "volume"

\* ------------------------------------------------------------------ C32
\* an exception was raised under an await of task t in this step
RaisedIn(t) == tasks[t].pc \in TaskStepNames /\ tasks'[t].raised_in # tasks[t].raised_in

OrdinaryBars15s == {event \in BarEvents : event.timeframe = "15sec" /\ ~event.malformed}

\* C32: an exception raised under an await of a decision cycle stays in
\* that cycle: the task ends by returning (after a raise in the volume
\* filter, by way of the imbalance fetch with the filter failed), never
\* with an exception set on it, the other tasks, the running flag and the
\* bar state are untouched, no on_new_bar call raises, and a 15sec bar that
\* arrives while running starts a decision cycle whatever was raised before.
C32_ExceptionEndsOnlyItsCycle ==
    [][/\ ~handler_raised'
       /\ \A t \in Tasks :
             /\ tasks'[t].end # "failed"
             /\ RaisedIn(t) =>
                   /\ \A u \in Tasks \ {t} : tasks'[u] = tasks[u]
                   /\ UNCHANGED <<running, bar_vars>>
                   /\ tasks'[t].caught_by # "nobody"
                   /\ tasks[t].pc \in {"mode", "signal", "orderbook", "entry"}
                         => tasks'[t].pc = "ended" /\ tasks'[t].end = "returned"
                   /\ tasks[t].pc = "volume"
                         => tasks'[t].pc = "imbalance" /\ ~tasks'[t].volume_ok
       /\ \A event \in OrdinaryBars15s :
             Task_OnNewBar(event) /\ running =>
                \E t \in Tasks : tasks[t].pc = "unborn" /\ tasks'[t].pc = "volume"
      ]_vars

\* get_trade_mode raised in the first cycle, _process_signal_task caught
\* it, and a 15sec bar that came afterwards started a cycle that has got
\* as far as its signal check
C32_Witness ==
    /\ running
    /\ tasks["T1"].raised_in = "mode"
    /\ tasks["T1"].caught_by = "_process_signal_task"
    /\ tasks["T1"].end = "returned"
    /\ "T1" \in tasks["T2"].after
    /\ tasks["T2"].pc = "signal"

\* ------------------------------------------------------------ C33, C34
Scored == EntryChecked /\ signals.has_score
One(flag) == IF flag THEN 1 ELSE 0

\* the met factors among RSI cross, WAE explosion and price break, plus
\* the pattern when it is required
CoreFactorsMet ==
    One(signals.rsi_cross) + One(signals.wae_explosion) + One(signals.price_break)
    + One(sig_cfg.pattern_required /\ signals.pattern_edge)

C34_ScoreWithinMax ==
    Scored => 0 <= signals.score /\ signals.score <= signals.max_score

\* ------------------------------------------------------------ C35, C36
Tracked(o) == o \in DOMAIN pending_orders
OthersKept(o) ==
    \A q \in Tasks \ {o} :
        /\ Tracked(q)' <=> Tracked(q)
        /\ Tracked(q) => pending_orders'[q] = pending_orders[q]

\* C35: over any sequence of submissions and order events an order id
\* enters pending_orders only when the submission of its cycle returns,
\* with status 'pending'; a fill event for a tracked id sets its status to
\* 'active' and a cancel or reject event for a tracked id removes it, each
\* leaving the other orders alone; an event for an untracked id leaves
\* pending_orders unchanged; nothing else changes an entry, and a status
\* never returns from 'active' to 'pending'.
C35_PendingOrdersLifecycle ==
    [][\A o \in Tasks :
          /\ ~Tracked(o) /\ Tracked(o)' =>
                /\ cycle[o].pc = "inflight" /\ cycle'[o].pc = "done"
                /\ broker[o] # "none"
                /\ pending_orders'[o].status = "pending"
                /\ OthersKept(o)
          /\ OnOrderFilled(o) =>
                IF Tracked(o)
                THEN /\ Tracked(o)' /\ pending_orders'[o].status = "active"
                     /\ OthersKept(o)
                ELSE pending_orders' = pending_orders
          /\ OnOrderFailed(o) =>
                IF Tracked(o)
                THEN ~Tracked(o)' /\ OthersKept(o)
                ELSE pending_orders' = pending_orders
          /\ Tracked(o) /\ Tracked(o)' /\ pending_orders'[o] # pending_orders[o] =>
                /\ OnOrderFilled(o)
                /\ pending_orders[o].status = "pending"
          /\ Tracked(o) /\ ~Tracked(o)' => OnOrderFailed(o)
      ]_vars

\* one tracked order was filled and is active, the other was tracked as
\* pending and then cancelled or rejected, which removed it
C35_Witness ==
    /\ Tracked("T1") /\ pending_orders["T1"].status = "active"
    /\ broker["T1"] = "filled"
    /\ broker["T2"] = "cancelled" /\ cycle["T2"].pc = "done" /\ ~Tracked("T2")

\* C36: for every interleaving of the entry submission returning and the
\* broker's fill event, a filled entry order that enter_trade has
\* registered is recorded with status 'active'.
C36_FillNotLost ==
    \A o \in Tasks :
        broker[o] = "filled" /\ cycle[o].pc = "done" /\ Tracked(o) =>
            pending_orders[o].status = "active"

\* ------------------------------------------------------------------ C37
AttemptEnded == be_pc = "done" /\ be_calls # << >>

\* C37: after any breakeven attempt, whichever of its broker calls failed,
\* the position has a protective stop order at the broker whose price
\* equals the local stop_price.
C37_StopStaysInPlace ==
    AttemptEnded =>
        stop_order.kind = "working" /\ stop_order.price = be_position.stop_price

\* ------------------------------------------------------------------ C38
ShutdownStarted == ~running /\ sd_pc # "idle"

\* C38: once shutdown has started (running set to false) no new entry
\* order is submitted, also not by a decision cycle that was in progress
\* when shutdown began.
C38_NoEntryAfterShutdown ==
    [][\A t \in Tasks :
          ShutdownStarted /\ broker[t] = "none" => broker'[t] = "none"]_vars

\* ------------------------------------------------------------------ C39
Invoked(c) == sd_call[c].number > 0
DidNothing(c) ==
    sd_call[c].pc = "returned" /\ sd_call[c].sent = {} /\ ~sd_call[c].disconnected

C40_ModeMatchesReportedTrends ==
    \A k \in DetailCalls :
        DetailsEnded(k) /\ details[k].trade_mode \notin {"none", "raised"} =>
            details[k].trade_mode =
                GetTradeMode(details[k].m15, details[k].m5, details[k].m1)

====
